---- MODULE Spec2Model ----
(***************************************************************************)
(* The entity transform engine of the canvas: CanvasEntityTransformer.ts.  *)
(* One transformer per entity; each owns the reactive atoms of the source  *)
(* ($isTransforming, $isPendingRectCalculation, ...), its konva proxy and  *)
(* outline rects, and its transformMutex.  Asynchronous functions are cut  *)
(* at their awaits: the part before an await is one action, the            *)
(* continuation after it another.                                          *)
(***************************************************************************)
EXTENDS Integers, Sequences, FiniteSets, TLC

VARIABLES
  tr,                 \* entity -> the transformer's fields
  mutex,              \* entity -> that transformer's transformMutex
  microtasks,         \* continuations whose await has resolved, in FIFO order
  applyTasks,         \* entity -> applyTransform calls suspended at an await
  calcTimer,          \* entity -> the debounce timer of calculateRect is armed
  workerReqs,         \* entity -> bbox requests the worker has not answered
  transformingAdapter,\* stateApi.$transformingAdapter
  tool,               \* manager.tool.$tool
  selected,           \* the selected entity
  isLocked,           \* entity -> parent.$isLocked
  isStaging,          \* manager.stagingArea.$isStaging
  isSegmenting,       \* entity -> parent.segmentAnything.$isSegmenting
  isFiltering,        \* entity -> parent.filterer.$isFiltering
  isEmpty,            \* entity -> parent.$isEmpty
  lastOp,             \* history: the operation that ran last and its outcome
  preWarp,            \* history: entity -> proxy rect and object group before the switch to warp
  watch,              \* history: the bbox passes counted since the watched call
  calc                \* the evaluation of a geometry function: its inputs and result

vars == <<tr, mutex, microtasks, applyTasks, calcTimer, workerReqs,
          transformingAdapter, tool, selected, isLocked, isStaging,
          isSegmenting, isFiltering, isEmpty, lastOp, preWarp, watch, calc>>

\* What the transformer's own operations leave alone.
envVars == <<tool, selected, isLocked, isStaging, isSegmenting, isFiltering, isEmpty, calc>>
\* The same, and the history of the mode switch.
frameVars == <<envVars, preWarp, watch>>

Entities == {"e1", "e2"}
Null == "null"
\* A nullable object field is the empty sequence (null) or holds one value.
None == <<>>
Some(v) == <<v>>
Tools == {"move", "view", "brush"}
TransformModes == {"affine", "warp"}

\* Bounds of the model.
MaxTasks == 1
MaxApply == 1
MaxWorkerReqs == 1

(***************************************************************************)
(* Rects.                                                                  *)
(***************************************************************************)
getEmptyRect == [x |-> 0, y |-> 0, width |-> 0, height |-> 0]
FullRect == [x |-> 0, y |-> 0, width |-> 2, height |-> 2]
ClientRects == {getEmptyRect, FullRect}
\* parent.state.position: the entity's position in the store, at the start.
Position == [x |-> 0, y |-> 0]
Scales == {2}
Rotations == {90}

(***************************************************************************)
(* Construction: the field initialisers of the class.                      *)
(***************************************************************************)
InitTransformer ==
  [ nodeRect |-> getEmptyRect,
    pixelRect |-> getEmptyRect,
    isPendingRectCalculation |-> FALSE,
    isTransforming |-> FALSE,
    transformMode |-> "affine",
    interactionMode |-> "off",
    isDragEnabled |-> FALSE,
    isTransformEnabled |-> FALSE,
    isProcessing |-> FALSE,
    silentTransform |-> FALSE,
    warpListening |-> FALSE,
    warpSourceCanvas |-> FALSE,
    warpCorners |-> None,
    warpDragStartCorners |-> None,
    warpSideDrag |-> None,
    affineSnapshot |-> None,
    outlineVisible |-> FALSE,
    proxyRect |-> [x |-> 0, y |-> 0, width |-> 0, height |-> 0,
                   scaleX |-> 1, scaleY |-> 1, rotation |-> 0],
    outlineRect |-> [scaleX |-> 1, scaleY |-> 1, rotation |-> 0],
    objectGroup |-> [x |-> 0, y |-> 0, offsetX |-> 0, offsetY |-> 0,
                     scaleX |-> 1, scaleY |-> 1, rotation |-> 0],
    position |-> Position ]

(***************************************************************************)
(* async-mutex: acquire() takes the lock at once when it is free and       *)
(* queues the caller otherwise; the caller's continuation runs later, as a *)
(* microtask.  release() does nothing on a free lock and otherwise hands   *)
(* the lock to the first waiter, or frees it.  It does not know who holds  *)
(* the lock: holder is a history field.                                    *)
(***************************************************************************)
NewMutex == [locked |-> FALSE, holder |-> "none", queue |-> <<>>]

\* ms = [m |-> the mutexes, q |-> the microtask queue]
MutexAcquire(ms, e, task) ==
  IF ms.m[e].locked
  THEN [ms EXCEPT !.m[e].queue = Append(@, task)]
  ELSE [m |-> [ms.m EXCEPT ![e] = [locked |-> TRUE, holder |-> task.kind, queue |-> @.queue]],
        q |-> Append(ms.q, task)]

\* Variant of MutexRelease that frees the lock and leaves the waiters queued.
MutexReleaseKeepsWaiters(ms, e) ==
  IF ~ms.m[e].locked
  THEN ms
  ELSE [ms EXCEPT !.m[e].locked = FALSE, !.m[e].holder = "none"]

MutexRelease(ms, e) ==
  IF ~ms.m[e].locked
  THEN ms
  ELSE IF ms.m[e].queue = <<>>
       THEN [ms EXCEPT !.m[e] = NewMutex]
       ELSE [m |-> [ms.m EXCEPT ![e] = [locked |-> TRUE,
                                         holder |-> Head(@.queue).kind,
                                         queue |-> Tail(@.queue)]],
             q |-> Append(ms.q, Head(ms.m[e].queue))]

(***************************************************************************)
(* The interaction mode.                                                   *)
(***************************************************************************)
\* The store and manager state that syncInteractionState reads.
Globals(adapter) ==
  [ adapter |-> adapter, tool |-> tool, selected |-> selected, isLocked |-> isLocked,
    isStaging |-> isStaging, isSegmenting |-> isSegmenting,
    isFiltering |-> isFiltering, isEmpty |-> isEmpty ]

\* stateApi.$isTransforming: some entity is the transforming adapter.
GlobalIsTransforming(g) == g.adapter # Null

\* Variant of teardownWarpPreview that keeps the warp corners.
teardownWarpPreviewKeepsCorners(s) ==
  [s EXCEPT !.warpSourceCanvas = FALSE, !.warpListening = FALSE]

teardownWarpPreview(s) ==
  [s EXCEPT !.warpSourceCanvas = FALSE, !.warpCorners = None, !.warpListening = FALSE]

Min2(a, b) == IF a <= b THEN a ELSE b
Max2(a, b) == IF a >= b THEN a ELSE b
Abs(a) == IF a >= 0 THEN a ELSE -a
\* Math.round(n / d) for d > 0: the nearest integer, a half going up.
MathRound(n, d) == (2 * n + d) \div (2 * d)
\* The remainder operator of the language: it takes the sign of the dividend.
Rem(a, b) == IF a >= 0 THEN a % b ELSE -((-a) % b)
\* roundToMultiple(n / d, multiple) = Math.round((n / d) / multiple) * multiple
roundToMultiple(n, d, multiple) == MathRound(n, d * multiple) * multiple

Min4(a, b, c, d) == Min2(Min2(a, b), Min2(c, d))
Max4(a, b, c, d) == Max2(Max2(a, b), Max2(c, d))

(***************************************************************************)
(* Numbers.  The language's numbers are binary floating point; here they   *)
(* have Precision bits of mantissa where the language has 53, and no       *)
(* exponent limits.  A number is [m, e], standing for m * 2^e, with m = 0  *)
(* and e = 0, or 2^(Precision-1) <= |m| < 2^Precision.  Every arithmetic   *)
(* operation returns the number nearest to the exact result, a tie going   *)
(* to the even mantissa.                                                   *)
(***************************************************************************)
Precision == 8

RECURSIVE Pow2(_)
Pow2(k) == IF k <= 0 THEN 1 ELSE 2 * Pow2(k - 1)

Sign(n) == IF n > 0 THEN 1 ELSE IF n < 0 THEN -1 ELSE 0

\* Exact values m * 2^e, not normalised, and exact arithmetic on them.
Dy(m, e) == [m |-> m, e |-> e]
DNeg(a) == [m |-> -a.m, e |-> a.e]
DAdd(a, b) ==
  IF a.m = 0 THEN b
  ELSE IF b.m = 0 THEN a
  ELSE LET lo == Min2(a.e, b.e)
       IN [m |-> a.m * Pow2(a.e - lo) + b.m * Pow2(b.e - lo), e |-> lo]
DSub(a, b) == DAdd(a, DNeg(b))
DMul(a, b) == [m |-> a.m * b.m, e |-> a.e + b.e]
\* The sign of a - b.
DCompare(a, b) ==
  IF a.m = 0 THEN -Sign(b.m)
  ELSE IF b.m = 0 THEN Sign(a.m)
  ELSE IF Sign(a.m) # Sign(b.m) THEN Sign(a.m)
  ELSE Sign(DSub(a, b).m)
DLeq(a, b) == DCompare(a, b) <= 0
DLess(a, b) == DCompare(a, b) < 0

\* n / d for n >= 0 and d > 0, rounded to an integer, a tie going to the even one.
RoundHalfEven(n, d) ==
  LET q == n \div d
      r == n % d
  IN IF 2 * r > d \/ (2 * r = d /\ q % 2 = 1) THEN q + 1 ELSE q

\* The number nearest to (n / d) * 2^e, for n > 0 and d > 0.
RECURSIVE FNormal(_, _, _)
FNormal(n, d, e) ==
  IF n >= d * Pow2(Precision) THEN FNormal(n, 2 * d, e + 1)
  ELSE IF n < d * Pow2(Precision - 1) THEN FNormal(2 * n, d, e - 1)
  ELSE LET m == RoundHalfEven(n, d)
       IN IF m = Pow2(Precision) THEN [m |-> Pow2(Precision - 1), e |-> e + 1]
          ELSE [m |-> m, e |-> e]

\* The number nearest to (n / d) * 2^e, for d > 0.
FRound(n, d, e) ==
  IF n = 0 THEN [m |-> 0, e |-> 0]
  ELSE IF n > 0 THEN FNormal(n, d, e)
  ELSE DNeg(FNormal(-n, d, e))

\* The number of an integer literal or integer input.
Num(i) == FRound(i, 1, 0)
FNeg(a) == DNeg(a)
FMul(a, b) == FRound(a.m * b.m, 1, a.e + b.e)
\* a / b for b # 0.
FDiv(a, b) == FRound(Sign(b.m) * a.m, Abs(b.m), a.e - b.e)
\* An operand too small to reach the rounding of the other leaves it as it is.
FAdd(a, b) ==
  IF a.m = 0 THEN b
  ELSE IF b.m = 0 THEN a
  ELSE IF a.e - b.e > Precision + 2 THEN a
  ELSE IF b.e - a.e > Precision + 2 THEN b
  ELSE LET s == DAdd(a, b) IN FRound(s.m, 1, s.e)
FSub(a, b) == FAdd(a, FNeg(b))
FMin(a, b) == IF DLeq(a, b) THEN a ELSE b
FMax(a, b) == IF DLeq(b, a) THEN a ELSE b
\* Math.round of a number, as an integer.
FMathRound(a) ==
  IF a.e >= 0 THEN a.m * Pow2(a.e)
  ELSE IF -a.e > Precision + 1 THEN 0
  ELSE MathRound(a.m, Pow2(-a.e))
\* The integer a whole number stands for.
FToInt(a) == IF a.e >= 0 THEN a.m * Pow2(a.e) ELSE a.m \div Pow2(-a.e)
\* roundToMultiple(value, multiple) = Math.round(value / multiple) * multiple
FRoundToMultiple(value, multiple) == FMul(Num(FMathRound(FDiv(value, multiple))), multiple)
\* clamp(value, lower, upper) of es-toolkit/compat
FClamp(value, lower, upper) == FMin(FMax(value, lower), upper)


\* getTransform().point: scale, then rotate (0 or 90 degrees), then translate.
transformPoint(r, px, py) ==
  IF r.rotation = 90
  THEN [x |-> r.x - r.scaleY * py, y |-> r.y + r.scaleX * px]
  ELSE [x |-> r.x + r.scaleX * px, y |-> r.y + r.scaleY * py]

getProxyRectCorners(s) ==
  [ tl |-> transformPoint(s.proxyRect, 0, 0),
    tr |-> transformPoint(s.proxyRect, s.proxyRect.width, 0),
    br |-> transformPoint(s.proxyRect, s.proxyRect.width, s.proxyRect.height),
    bl |-> transformPoint(s.proxyRect, 0, s.proxyRect.height) ]

\* The axis-aligned bounds of four corners.
cornerBounds(c) ==
  LET minX == Min4(c.tl.x, c.tr.x, c.br.x, c.bl.x)
      maxX == Max4(c.tl.x, c.tr.x, c.br.x, c.bl.x)
      minY == Min4(c.tl.y, c.tr.y, c.br.y, c.bl.y)
      maxY == Max4(c.tl.y, c.tr.y, c.br.y, c.bl.y)
  IN [x |-> minX, y |-> minY, width |-> maxX - minX, height |-> maxY - minY]

\* proxyRect.getClientRect({ relativeTo: layer })
getRelativeRect(s) == cornerBounds(getProxyRectCorners(s))

prepareWarpPreview(s) ==
  IF ~s.isTransforming THEN s
  ELSE IF getRelativeRect(s).width = 0 \/ getRelativeRect(s).height = 0
       THEN s
       ELSE [s EXCEPT !.warpSourceCanvas = TRUE, !.warpCorners = Some(getProxyRectCorners(s)),
                      !.warpListening = TRUE]

updateWarpBBoxFromCorners(s) ==
  IF s.warpCorners = None THEN s
  ELSE LET b == cornerBounds(s.warpCorners[1])
       IN [s EXCEPT !.proxyRect = [x |-> b.x, y |-> b.y,
                                   width |-> Max2(1, b.width), height |-> Max2(1, b.height),
                                   scaleX |-> 1, scaleY |-> 1, rotation |-> 0]]

enableWarp(s) ==
  LET s1 == [s EXCEPT !.warpListening = TRUE]
  IN IF ~s1.warpSourceCanvas THEN prepareWarpPreview(s1) ELSE s1

setInteractionMode(s, mode) ==
  LET s0 == [s EXCEPT !.interactionMode = mode]
  IN CASE mode = "drag" ->
            [s0 EXCEPT !.isDragEnabled = TRUE, !.isTransformEnabled = FALSE,
                       !.warpListening = FALSE, !.outlineVisible = TRUE]
       [] mode = "all" ->
            IF s0.transformMode = "warp"
            THEN enableWarp([s0 EXCEPT !.isDragEnabled = FALSE, !.isTransformEnabled = FALSE,
                                       !.outlineVisible = FALSE])
            ELSE [s0 EXCEPT !.isDragEnabled = TRUE, !.warpListening = FALSE,
                            !.isTransformEnabled = TRUE, !.outlineVisible = FALSE]
       [] OTHER ->
            [s0 EXCEPT !.isDragEnabled = FALSE, !.isTransformEnabled = FALSE,
                       !.warpListening = FALSE, !.outlineVisible = FALSE]

\* Variant of syncedMode without the pending / empty-rect return.
syncedModeIgnoringPending(s, e, g) ==
  IF g.isStaging THEN "off"
  ELSE IF g.isSegmenting[e] THEN "off"
  ELSE IF g.isFiltering[e] THEN "off"
  ELSE IF GlobalIsTransforming(g) /\ ~s.isTransforming THEN "off"
  ELSE IF g.selected # e THEN "off"
  ELSE IF g.isEmpty[e] THEN "off"
  ELSE IF g.isLocked[e] THEN "off"
  ELSE IF ~s.isTransforming /\ g.tool = "move" THEN "drag"
  ELSE IF s.isTransforming THEN (IF g.tool = "view" THEN "off" ELSE "all")
  ELSE "off"

\* Variant of syncedMode with the tool returns ahead of the $isLocked return.
syncedModeToolFirst(s, e, g) ==
  IF g.isStaging THEN "off"
  ELSE IF g.isSegmenting[e] THEN "off"
  ELSE IF g.isFiltering[e] THEN "off"
  ELSE IF GlobalIsTransforming(g) /\ ~s.isTransforming THEN "off"
  ELSE IF s.isPendingRectCalculation \/ s.pixelRect.width = 0 \/ s.pixelRect.height = 0 THEN "off"
  ELSE IF g.selected # e THEN "off"
  ELSE IF g.isEmpty[e] THEN "off"
  ELSE IF ~s.isTransforming /\ g.tool = "move" THEN "drag"
  ELSE IF g.isLocked[e] THEN "off"
  ELSE IF s.isTransforming THEN (IF g.tool = "view" THEN "off" ELSE "all")
  ELSE "off"

\* The mode syncInteractionState chooses: the first return it reaches.
syncedMode(s, e, g) ==
  IF g.isStaging THEN "off"
  ELSE IF g.isSegmenting[e] THEN "off"
  ELSE IF g.isFiltering[e] THEN "off"
  ELSE IF GlobalIsTransforming(g) /\ ~s.isTransforming THEN "off"
  ELSE IF s.isPendingRectCalculation \/ s.pixelRect.width = 0 \/ s.pixelRect.height = 0 THEN "off"
  ELSE IF g.selected # e THEN "off"
  ELSE IF g.isEmpty[e] THEN "off"
  ELSE IF g.isLocked[e] THEN "off"
  ELSE IF ~s.isTransforming /\ g.tool = "move" THEN "drag"
  ELSE IF s.isTransforming THEN (IF g.tool = "view" THEN "off" ELSE "all")
  ELSE "off"

syncInteractionState(s, e, g) == setInteractionMode(s, syncedMode(s, e, g))

(***************************************************************************)
(* Geometry resets.                                                        *)
(***************************************************************************)
resetScale(s) ==
  [s EXCEPT !.proxyRect.scaleX = 1, !.proxyRect.scaleY = 1, !.proxyRect.rotation = 0,
            !.objectGroup.scaleX = 1, !.objectGroup.scaleY = 1, !.objectGroup.rotation = 0,
            !.outlineRect = [scaleX |-> 1, scaleY |-> 1, rotation |-> 0]]

\* update(position, bbox): the proxy rect takes the size of the bbox.
update(s, bbox) ==
  [s EXCEPT !.proxyRect.x = s.position.x + bbox.x, !.proxyRect.y = s.position.y + bbox.y,
            !.proxyRect.width = bbox.width, !.proxyRect.height = bbox.height]

\* groupAttrs: the object group is put at the entity's position.
setGroupAttrs(s) ==
  [s EXCEPT !.objectGroup.x = s.position.x + s.pixelRect.x,
            !.objectGroup.y = s.position.y + s.pixelRect.y,
            !.objectGroup.offsetX = s.pixelRect.x,
            !.objectGroup.offsetY = s.pixelRect.y]

updatePosition(s) == update(setGroupAttrs(s), s.pixelRect)

syncObjectGroupWithProxyRect(s) ==
  [s EXCEPT !.objectGroup.x = s.proxyRect.x, !.objectGroup.y = s.proxyRect.y,
            !.objectGroup.scaleX = s.proxyRect.scaleX, !.objectGroup.scaleY = s.proxyRect.scaleY,
            !.objectGroup.rotation = s.proxyRect.rotation]

\* updateBbox: [s |-> the transformer afterwards, reset |-> resetEntity was called]
updateBbox(s, e, g, hasObjects) ==
  IF s.isPendingRectCalculation
  THEN [s |-> syncInteractionState(s, e, g), reset |-> FALSE]
  ELSE IF s.pixelRect.width = 0 \/ s.pixelRect.height = 0
       THEN [s |-> syncInteractionState(s, e, g),
             reset |-> ~s.isTransforming /\ ~s.isProcessing /\ hasObjects]
       ELSE [s |-> setGroupAttrs(update(syncInteractionState(s, e, g), s.pixelRect)),
             reset |-> FALSE]

RECURSIVE SumOver(_, _)
SumOver(f, S) == IF S = {} THEN 0 ELSE LET x == CHOOSE x \in S : TRUE IN f[x] + SumOver(f, S \ {x})

\* The calls of transformer e waiting for its lock or for their continuation.
LockRequests(e) ==
  Len(mutex[e].queue) + Cardinality({i \in 1..Len(microtasks) : microtasks[i].ent = e})
ApplyCalls == SumOver([e \in Entities |-> Len(applyTasks[e])], Entities)
WorkerCalls == SumOver(workerReqs, Entities)

\* A session of e is in flight: from the lock being granted to startTransform
\* until stopTransform has released it.
InFlight(e) ==
  \/ tr[e].isTransforming
  \/ tr[e].isProcessing
  \/ mutex[e].locked /\ mutex[e].holder \in {"start", "session"}

\* A record of lastOp.  reset: resetEntity was called, and whether a session was
\* in flight then; toast: an error toast was shown; scaled: the proxy rect was
\* scaled or rotated when stopTransform was entered; at: the await an
\* applyTransform that has returned was last suspended at; moved: the proxy rect
\* was no longer the one of before the switch to warp when setTransformMode was
\* entered; grid: the position grid size an onDragMove snapped to.
Op(op, e, outcome) ==
  [op |-> op, ent |-> e, outcome |-> outcome, reset |-> "none", toast |-> FALSE,
   scaled |-> FALSE, at |-> "none", moved |-> FALSE, grid |-> 0]

\* The proxy rect of s is scaled or rotated.
IsScaled(s) == s.proxyRect.scaleX # 1 \/ s.proxyRect.scaleY # 1 \/ s.proxyRect.rotation # 0

Task(kind, e) == [kind |-> kind, ent |-> e]

\* No geometry function is being evaluated.
NoCalc == [fn |-> "none"]

\* Nothing is watched.  A watch counts, from the call it is set at, the
\* requestRectCalculation calls that got the lock and set the pending flag
\* (entered) and the runs of calculateRect's body (ran).
NoWatch == [on |-> FALSE, calls |-> 0, entered |-> 0, ran |-> 0]
StartWatch(n) == [on |-> TRUE, calls |-> n, entered |-> 0, ran |-> 0]
Entered(w) == IF w.on THEN [w EXCEPT !.entered = @ + 1] ELSE w
Ran(w) == IF w.on THEN [w EXCEPT !.ran = @ + 1] ELSE w

(***************************************************************************)
(* Init: every transformer as constructed, nothing running.                *)
(***************************************************************************)
Init ==
  /\ tr = [e \in Entities |-> InitTransformer]
  /\ mutex = [e \in Entities |-> NewMutex]
  /\ microtasks = <<>>
  /\ applyTasks = [e \in Entities |-> <<>>]
  /\ calcTimer = [e \in Entities |-> FALSE]
  /\ workerReqs = [e \in Entities |-> 0]
  /\ transformingAdapter = Null
  /\ tool = "move"
  /\ selected = "e1"
  /\ isLocked = [e \in Entities |-> FALSE]
  /\ isStaging = FALSE
  /\ isSegmenting = [e \in Entities |-> FALSE]
  /\ isFiltering = [e \in Entities |-> FALSE]
  /\ isEmpty = [e \in Entities |-> FALSE]
  /\ lastOp = Op("other", Null, "ok")
  /\ preWarp = [e \in Entities |-> None]
  /\ watch = NoWatch
  /\ calc = NoCalc

\* Variant of StartTransform that asks for the lock before it looks at
\* $transformingAdapter.
StartTransformLockFirst(e) ==
  /\ microtasks = <<>>
  /\ LockRequests(e) < MaxTasks
  /\ LET ms == MutexAcquire([m |-> mutex, q |-> microtasks], e, Task("start", e))
     IN /\ mutex' = ms.m
        /\ microtasks' = ms.q
  /\ lastOp' = Op("startTransform", e, IF transformingAdapter # Null THEN "assert" ELSE "waiting")
  /\ UNCHANGED <<tr, applyTasks, calcTimer, workerReqs, transformingAdapter, frameVars>>

(***************************************************************************)
(* startTransform, up to its await.                                        *)
(***************************************************************************)
StartTransform(e) ==
  /\ microtasks = <<>>
  /\ IF transformingAdapter # Null
         THEN \* assert(false, 'Already transforming an entity')
              /\ lastOp' = Op("startTransform", e, "assert")
              /\ UNCHANGED <<tr, mutex, microtasks, applyTasks, calcTimer, workerReqs,
                             transformingAdapter, frameVars>>
         ELSE /\ LockRequests(e) < MaxTasks
              /\ LET ms == MutexAcquire([m |-> mutex, q |-> microtasks], e, Task("start", e))
                 IN /\ mutex' = ms.m
                    /\ microtasks' = ms.q
              /\ lastOp' = Op("startTransform", e, "waiting")
              /\ UNCHANGED <<tr, applyTasks, calcTimer, workerReqs, transformingAdapter, frameVars>>

\* startTransform after its await: the lock has been granted.
StartTransformResume(e) ==
  /\ microtasks # <<>>
  /\ Head(microtasks).kind = "start"
  /\ Head(microtasks).ent = e
  /\ \E silent \in BOOLEAN :
       LET s1 == [tr[e] EXCEPT !.silentTransform = silent,
                               !.isTransforming = TRUE,
                               !.transformMode = "affine"]
           s2 == teardownWarpPreview(s1)
       IN tr' = [tr EXCEPT ![e] = syncInteractionState(s2, e, Globals(e))]
  /\ transformingAdapter' = e
  /\ mutex' = [mutex EXCEPT ![e].holder =
                 IF mutex[e].locked /\ @ = "start" THEN "session" ELSE @]
  /\ microtasks' = Tail(microtasks)
  /\ lastOp' = Op("startTransformResumed", e, "ok")
  /\ UNCHANGED <<applyTasks, calcTimer, workerReqs, frameVars>>

\* Variant of stopTransformBody whose resetTransform leaves the scale alone.
stopTransformBodyKeepsScale(s, e, g, hasObjects) ==
  LET s1 == [s EXCEPT !.isTransforming = FALSE]
      s2 == teardownWarpPreview(s1)
      s3 == updatePosition(s2)
      ub == updateBbox(s3, e, g, hasObjects)
      s4 == syncInteractionState(ub.s, e, g)
  IN [s |-> [s4 EXCEPT !.isProcessing = FALSE], reset |-> ub.reset]

(***************************************************************************)
(* stopTransform.                                                          *)
(***************************************************************************)
\* Everything stopTransform does to the transformer; g holds the transforming
\* adapter as it is during the call (it is nulled after the last sync).
stopTransformBody(s, e, g, hasObjects) ==
  LET s1 == [s EXCEPT !.isTransforming = FALSE]
      s2 == teardownWarpPreview(s1)
      s3 == updatePosition(resetScale(s2))
      ub == updateBbox(s3, e, g, hasObjects)
      s4 == syncInteractionState(ub.s, e, g)
  IN [s |-> [s4 EXCEPT !.isProcessing = FALSE], reset |-> ub.reset]

ResetKind(e, reset) == IF ~reset THEN "none" ELSE IF InFlight(e) THEN "inFlight" ELSE "idle"

StopTransform(e) ==
  /\ microtasks = <<>>
  /\ \E hasObjects \in BOOLEAN :
         LET r == stopTransformBody(tr[e], e, Globals(transformingAdapter), hasObjects)
             ms == MutexRelease([m |-> mutex, q |-> microtasks], e)
         IN /\ tr' = [tr EXCEPT ![e] = r.s]
            /\ transformingAdapter' = Null
            /\ mutex' = ms.m
            /\ microtasks' = ms.q
            /\ lastOp' = [Op("stopTransform", e, "ok") EXCEPT !.reset = ResetKind(e, r.reset),
                                                              !.scaled = IsScaled(tr[e])]
            /\ UNCHANGED <<applyTasks, calcTimer, workerReqs, frameVars>>

(***************************************************************************)
(* requestRectCalculation and the debounced calculateRect.                 *)
(***************************************************************************)
RequestRectCalculation(e) ==
  /\ microtasks = <<>>
  /\ LockRequests(e) < MaxTasks
  /\ LET ms == MutexAcquire([m |-> mutex, q |-> microtasks], e, Task("rect", e))
     IN /\ mutex' = ms.m
        /\ microtasks' = ms.q
  /\ lastOp' = Op("other", Null, "ok")
  /\ UNCHANGED <<tr, applyTasks, calcTimer, workerReqs, transformingAdapter, frameVars>>

\* requestRectCalculation after its await; calculateRect() arms the debounce timer.
RequestRectCalculationResume(e) ==
  /\ microtasks # <<>>
  /\ Head(microtasks).kind = "rect"
  /\ Head(microtasks).ent = e
  /\ tr' = [tr EXCEPT ![e] = syncInteractionState(
                                [@ EXCEPT !.isPendingRectCalculation = TRUE],
                                e, Globals(transformingAdapter))]
  /\ calcTimer' = [calcTimer EXCEPT ![e] = TRUE]
  /\ microtasks' = Tail(microtasks)
  /\ lastOp' = Op("requestRectCalculation", e, "pending")
  /\ watch' = Entered(watch)
  /\ UNCHANGED <<mutex, applyTasks, workerReqs, transformingAdapter, envVars, preWarp>>

\* The calls of one burst.
MaxBurst == 3

\* n calls of requestRectCalculation one after the other, each up to its await.
RECURSIVE acquireTimes(_, _, _)
acquireTimes(ms, e, n) ==
  IF n = 0 THEN ms ELSE acquireTimes(MutexAcquire(ms, e, Task("rect", e)), e, n - 1)

\* A caller asks for the bbox n > 1 times in a row while no session is active
\* and nothing else holds or waits for the lock.
RequestRectCalculationBurst(e) ==
  /\ microtasks = <<>>
  /\ ~tr[e].isTransforming
  /\ LockRequests(e) = 0
  /\ ~mutex[e].locked
  /\ watch.on => watch.calls = 0
  /\ \E n \in 2..MaxBurst :
       /\ LET ms == acquireTimes([m |-> mutex, q |-> microtasks], e, n)
          IN /\ mutex' = ms.m
             /\ microtasks' = ms.q
       /\ watch' = IF watch.on THEN StartWatch(n) ELSE watch
  /\ lastOp' = Op("other", Null, "ok")
  /\ UNCHANGED <<tr, applyTasks, calcTimer, workerReqs, transformingAdapter, envVars, preWarp>>

\* The end of a pass: the rects are set, the pending flag cleared, updateBbox run
\* (unless getCanvas failed) and the mutex released.
finishRect(e, nodeRect, pixelRect, runUpdateBbox, hasObjects, outcome) ==
  LET s1 == [tr[e] EXCEPT !.nodeRect = nodeRect, !.pixelRect = pixelRect,
                          !.isPendingRectCalculation = FALSE]
      ub == IF runUpdateBbox
            THEN updateBbox(s1, e, Globals(transformingAdapter), hasObjects)
            ELSE [s |-> s1, reset |-> FALSE]
      ms == MutexRelease([m |-> mutex, q |-> microtasks], e)
  IN /\ tr' = [tr EXCEPT ![e] = ub.s]
     /\ mutex' = ms.m
     /\ microtasks' = ms.q
     /\ lastOp' = [Op("calculateRect", e, outcome) EXCEPT !.reset = ResetKind(e, ub.reset)]

\* The debounce timer fires and the body of calculateRect runs.
CalculateRect(e) ==
  /\ microtasks = <<>>
  /\ calcTimer[e]
  /\ calcTimer' = [calcTimer EXCEPT ![e] = FALSE]
  /\ \/ \* getCanvas failed
        /\ finishRect(e, getEmptyRect, getEmptyRect, FALSE, FALSE, "done")
        /\ UNCHANGED workerReqs
     \/ \* the entity has no objects
        /\ finishRect(e, getEmptyRect, getEmptyRect, TRUE, FALSE, "done")
        /\ UNCHANGED workerReqs
     \/ \* no pixel bbox needed: both rects are the client rect
        /\ \E rect \in ClientRects : finishRect(e, rect, rect, TRUE, TRUE, "done")
        /\ UNCHANGED workerReqs
     \/ \* the pixel data goes to the worker
        /\ WorkerCalls < MaxWorkerReqs
        /\ workerReqs' = [workerReqs EXCEPT ![e] = @ + 1]
        /\ lastOp' = Op("other", Null, "ok")
        /\ UNCHANGED <<tr, mutex, microtasks>>
     \/ \* canvasToImageData or requestBbox throws: the timer callback ends there
        /\ lastOp' = Op("calculateRect", e, "threw")
        /\ UNCHANGED <<tr, mutex, microtasks, workerReqs>>
  /\ watch' = Ran(watch)
  /\ UNCHANGED <<applyTasks, transformingAdapter, envVars, preWarp>>

\* Variant of workerRects whose fallback truncates where the code rounds.
workerRectsTruncating(rect, d, extents) ==
  IF extents # None
  THEN [nodeRect |-> rect,
        pixelRect |-> [x |-> MathRound(rect.x, d) * d + extents[1].minX * d,
                       y |-> MathRound(rect.y, d) * d + extents[1].minY * d,
                       width |-> (extents[1].maxX - extents[1].minX) * d,
                       height |-> (extents[1].maxY - extents[1].minY) * d]]
  ELSE [nodeRect |-> rect,
        pixelRect |-> [x |-> (rect.x \div d) * d, y |-> (rect.y \div d) * d,
                       width |-> (rect.width \div d) * d,
                       height |-> (rect.height \div d) * d]]

\* The callback calculateRect gives the worker: the rects it sets.  rect is the
\* client rect of the object group and extents the worker's answer (None: null).
\* Lengths are in units of 1/d pixel, the extents in pixels.
workerRects(rect, d, extents) ==
  IF extents # None
  THEN [nodeRect |-> rect,
        pixelRect |-> [x |-> MathRound(rect.x, d) * d + extents[1].minX * d,
                       y |-> MathRound(rect.y, d) * d + extents[1].minY * d,
                       width |-> (extents[1].maxX - extents[1].minX) * d,
                       height |-> (extents[1].maxY - extents[1].minY) * d]]
  ELSE [nodeRect |-> rect,
        pixelRect |-> [x |-> MathRound(rect.x, d) * d, y |-> MathRound(rect.y, d) * d,
                       width |-> MathRound(rect.width, d) * d,
                       height |-> MathRound(rect.height, d) * d]]

\* What the worker answers for the pixels of FullRect: the extents of the pixels
\* with alpha above 0, or null.
WorkerAnswers ==
  { None,
    Some([minX |-> 0, minY |-> 0, maxX |-> 2, maxY |-> 2]),
    Some([minX |-> 0, minY |-> 0, maxX |-> 0, maxY |-> 0]) }

\* The worker answers and the callback of calculateRect runs.
WorkerResponse(e) ==
  /\ microtasks = <<>>
  /\ workerReqs[e] > 0
  /\ workerReqs' = [workerReqs EXCEPT ![e] = @ - 1]
  /\ \E hasObjects \in BOOLEAN, extents \in WorkerAnswers :
       LET r == workerRects(FullRect, 1, extents)
       IN finishRect(e, r.nodeRect, r.pixelRect, TRUE, hasObjects,
                     IF extents = None THEN "workerNull" ELSE "workerExtents")
  /\ UNCHANGED <<applyTasks, calcTimer, transformingAdapter, frameVars>>

(***************************************************************************)
(* applyTransform.                                                         *)
(***************************************************************************)
\* Variant of ApplyTransform without the test of $isTransforming.
ApplyTransformUnguarded(e) ==
  /\ microtasks = <<>>
  /\ ApplyCalls < MaxApply
  /\ LET s1 == [tr[e] EXCEPT !.isProcessing = TRUE]
     IN IF s1.transformMode = "warp"
        THEN LET s2 == [s1 EXCEPT !.interactionMode = "off", !.isDragEnabled = FALSE,
                                  !.isTransformEnabled = FALSE, !.warpListening = FALSE]
             IN IF s2.warpSourceCanvas /\ s2.warpCorners # None
                THEN /\ tr' = [tr EXCEPT ![e] = updateWarpBBoxFromCorners(s2)]
                     /\ applyTasks' = [applyTasks EXCEPT ![e] = Append(@, "warpRasterize")]
                ELSE /\ tr' = [tr EXCEPT ![e] = s2]
                     /\ applyTasks' = [applyTasks EXCEPT ![e] = Append(@, "warpRejected")]
        ELSE /\ tr' = [tr EXCEPT ![e] = setInteractionMode(s1, "off")]
             /\ applyTasks' = [applyTasks EXCEPT ![e] = Append(@, "rasterize")]
  /\ lastOp' = Op("other", Null, "ok")
  /\ watch' = IF watch.on THEN StartWatch(1) ELSE watch
  /\ UNCHANGED <<mutex, microtasks, calcTimer, workerReqs, transformingAdapter,
                 envVars, preWarp>>

\* Variant of ApplyTransform that does not set $isProcessing.
ApplyTransformNotProcessing(e) ==
  /\ microtasks = <<>>
  /\ IF ~tr[e].isTransforming
       THEN /\ lastOp' = Op("applyTransform", e, "notTransforming")
            /\ UNCHANGED <<tr, mutex, microtasks, applyTasks, calcTimer, workerReqs,
                           transformingAdapter, frameVars>>
       ELSE /\ ApplyCalls < MaxApply
            /\ LET s1 == tr[e]
               IN IF s1.transformMode = "warp"
                  THEN LET s2 == [s1 EXCEPT !.interactionMode = "off", !.isDragEnabled = FALSE,
                                            !.isTransformEnabled = FALSE, !.warpListening = FALSE]
                       IN IF s2.warpSourceCanvas /\ s2.warpCorners # None
                          THEN /\ tr' = [tr EXCEPT ![e] = updateWarpBBoxFromCorners(s2)]
                               /\ applyTasks' = [applyTasks EXCEPT ![e] = Append(@, "warpRasterize")]
                          ELSE /\ tr' = [tr EXCEPT ![e] = s2]
                               /\ applyTasks' = [applyTasks EXCEPT ![e] = Append(@, "warpRejected")]
                  ELSE /\ tr' = [tr EXCEPT ![e] = setInteractionMode(s1, "off")]
                       /\ applyTasks' = [applyTasks EXCEPT ![e] = Append(@, "rasterize")]
            /\ lastOp' = Op("other", Null, "ok")
            /\ watch' = IF watch.on THEN StartWatch(1) ELSE watch
            /\ UNCHANGED <<mutex, microtasks, calcTimer, workerReqs, transformingAdapter,
                           envVars, preWarp>>

\* applyTransform up to its await.  An apply task is the await it is suspended at:
\* "rasterize" (affine), "warpRasterize" (applyWarpTransform's awaits),
\* "warpRejected" (applyWarpTransform's assertion failed) or "warpDone"
\* (applyWarpTransform has returned).
ApplyTransform(e) ==
  /\ microtasks = <<>>
  /\ IF ~tr[e].isTransforming
       THEN /\ lastOp' = Op("applyTransform", e, "notTransforming")
            /\ UNCHANGED <<tr, mutex, microtasks, applyTasks, calcTimer, workerReqs,
                           transformingAdapter, frameVars>>
       ELSE /\ ApplyCalls < MaxApply
            /\ LET s1 == [tr[e] EXCEPT !.isProcessing = TRUE]
               IN IF s1.transformMode = "warp"
                  THEN LET s2 == [s1 EXCEPT !.interactionMode = "off", !.isDragEnabled = FALSE,
                                            !.isTransformEnabled = FALSE, !.warpListening = FALSE]
                       IN IF s2.warpSourceCanvas /\ s2.warpCorners # None
                          THEN /\ tr' = [tr EXCEPT ![e] = updateWarpBBoxFromCorners(s2)]
                               /\ applyTasks' = [applyTasks EXCEPT ![e] = Append(@, "warpRasterize")]
                          ELSE /\ tr' = [tr EXCEPT ![e] = s2]
                               /\ applyTasks' = [applyTasks EXCEPT ![e] = Append(@, "warpRejected")]
                  ELSE /\ tr' = [tr EXCEPT ![e] = setInteractionMode(s1, "off")]
                       /\ applyTasks' = [applyTasks EXCEPT ![e] = Append(@, "rasterize")]
            /\ lastOp' = Op("other", Null, "ok")
            /\ watch' = IF watch.on THEN StartWatch(1) ELSE watch
            /\ UNCHANGED <<mutex, microtasks, calcTimer, workerReqs, transformingAdapter,
                           envVars, preWarp>>

RemoveAt(seq, i) == SubSeq(seq, 1, i - 1) \o SubSeq(seq, i + 1, Len(seq))

\* Variant of applyTransformTail in which a rejected rasterization ends the call
\* at the error: the toast is shown and nothing else runs.
applyTransformTailOnlyOnSuccess(e, i, failed, hasObjects) ==
  LET ms1 == MutexAcquire([m |-> mutex, q |-> microtasks], e, Task("rect", e))
      r == stopTransformBody(tr[e], e, Globals(transformingAdapter), hasObjects)
      ms2 == MutexRelease(ms1, e)
  IN IF failed
     THEN /\ applyTasks' = [applyTasks EXCEPT ![e] = RemoveAt(@, i)]
          /\ lastOp' = [Op("applyTransformDone", e, "failed")
                          EXCEPT !.toast = TRUE, !.at = applyTasks[e][i]]
          /\ UNCHANGED <<tr, transformingAdapter, mutex, microtasks>>
     ELSE /\ tr' = [tr EXCEPT ![e] = r.s]
          /\ transformingAdapter' = Null
          /\ mutex' = ms2.m
          /\ microtasks' = ms2.q
          /\ applyTasks' = [applyTasks EXCEPT ![e] = RemoveAt(@, i)]
          /\ lastOp' = [Op("applyTransformDone", e, "ok")
                          EXCEPT !.reset = ResetKind(e, r.reset), !.scaled = IsScaled(tr[e]),
                                 !.at = applyTasks[e][i]]

\* The last two statements of applyTransform: requestRectCalculation() up to its
\* await, then stopTransform().
applyTransformTail(e, i, failed, hasObjects) ==
  LET ms1 == MutexAcquire([m |-> mutex, q |-> microtasks], e, Task("rect", e))
      r == stopTransformBody(tr[e], e, Globals(transformingAdapter), hasObjects)
      ms2 == MutexRelease(ms1, e)
  IN /\ tr' = [tr EXCEPT ![e] = r.s]
     /\ transformingAdapter' = Null
     /\ mutex' = ms2.m
     /\ microtasks' = ms2.q
     /\ applyTasks' = [applyTasks EXCEPT ![e] = RemoveAt(@, i)]
     /\ lastOp' = [Op("applyTransformDone", e, IF failed THEN "failed" ELSE "ok")
                     EXCEPT !.reset = ResetKind(e, r.reset), !.toast = failed,
                            !.scaled = IsScaled(tr[e]), !.at = applyTasks[e][i]]

\* An awaited promise of applyTransform settles and the call goes on.
ApplyTransformResume(e) ==
  \E i \in 1..Len(applyTasks[e]), hasObjects \in BOOLEAN :
    LET at == applyTasks[e][i] IN
    \/ /\ at = "rasterize"
       /\ microtasks = <<>>
       /\ \E failed \in BOOLEAN : applyTransformTail(e, i, failed, hasObjects)
       /\ UNCHANGED <<calcTimer, workerReqs, frameVars>>
    \/ /\ at = "warpRasterize"
       /\ microtasks = <<>>
       /\ \/ \* rasterizeCanvas, waitForRasterizationToFinish or syncObjects rejected
             applyTransformTail(e, i, TRUE, hasObjects)
          \/ \* applyWarpTransform goes on to its own requestRectCalculation()
             /\ LET ms == MutexAcquire([m |-> mutex, q |-> microtasks], e, Task("rect", e))
                IN /\ mutex' = ms.m
                   /\ microtasks' = ms.q
             /\ applyTasks' = [applyTasks EXCEPT ![e][i] = "warpDone"]
             /\ lastOp' = Op("other", Null, "ok")
             /\ UNCHANGED <<tr, transformingAdapter>>
       /\ UNCHANGED <<calcTimer, workerReqs, frameVars>>
    \/ /\ at = "warpDone"
       /\ applyTransformTail(e, i, FALSE, hasObjects)
       /\ UNCHANGED <<calcTimer, workerReqs, frameVars>>
    \/ /\ at = "warpRejected"
       /\ applyTransformTail(e, i, TRUE, hasObjects)
       /\ UNCHANGED <<calcTimer, workerReqs, frameVars>>

(***************************************************************************)
(* setTransformMode.                                                       *)
(***************************************************************************)
\* The placement of the object group that the affine snapshot keeps.
groupPlacement(og) ==
  [x |-> og.x, y |-> og.y, scaleX |-> og.scaleX, scaleY |-> og.scaleY, rotation |-> og.rotation]

\* objectGroup.setAttrs(objectGroup); proxyRect.setAttrs(proxyRect)
restoreAffineSnapshot(s) ==
  LET snapshot == s.affineSnapshot[1]
  IN [s EXCEPT !.objectGroup.x = snapshot.objectGroup.x,
               !.objectGroup.y = snapshot.objectGroup.y,
               !.objectGroup.scaleX = snapshot.objectGroup.scaleX,
               !.objectGroup.scaleY = snapshot.objectGroup.scaleY,
               !.objectGroup.rotation = snapshot.objectGroup.rotation,
               !.proxyRect = snapshot.proxyRect]

\* Variant of setTransformModeBody that leaves warp without restoring the snapshot.
setTransformModeBodyNoRestore(s, e, g, mode) ==
  IF s.transformMode = mode THEN s
  ELSE LET s1 == [s EXCEPT !.transformMode = mode]
           s2 == IF ~s1.isTransforming THEN s1
                 ELSE IF mode = "warp"
                      THEN prepareWarpPreview(
                             [s1 EXCEPT !.affineSnapshot =
                                Some([proxyRect |-> s1.proxyRect,
                                      objectGroup |-> groupPlacement(s1.objectGroup)])])
                      ELSE [teardownWarpPreview(s1) EXCEPT !.affineSnapshot = None]
       IN syncInteractionState(s2, e, g)

setTransformModeBody(s, e, g, mode) ==
  IF s.transformMode = mode THEN s
  ELSE LET s1 == [s EXCEPT !.transformMode = mode]
           s2 == IF ~s1.isTransforming THEN s1
                 ELSE IF mode = "warp"
                      THEN prepareWarpPreview(
                             [s1 EXCEPT !.affineSnapshot =
                                Some([proxyRect |-> s1.proxyRect,
                                      objectGroup |-> groupPlacement(s1.objectGroup)])])
                      ELSE LET t == teardownWarpPreview(s1)
                               u == IF t.affineSnapshot # None
                                    THEN restoreAffineSnapshot(t)
                                    ELSE t
                           IN [u EXCEPT !.affineSnapshot = None]
       IN syncInteractionState(s2, e, g)

\* preWarp remembers the proxy rect and the object group as they were when a
\* session switched to warp.
SetTransformMode(e) ==
  /\ microtasks = <<>>
  /\ \E mode \in TransformModes :
       LET switched == tr[e].isTransforming /\ tr[e].transformMode # mode
       IN /\ tr' = [tr EXCEPT ![e] = setTransformModeBody(@, e, Globals(transformingAdapter), mode)]
          /\ preWarp' = [preWarp EXCEPT ![e] =
                           IF switched /\ mode = "warp"
                           THEN Some([proxyRect |-> tr[e].proxyRect,
                                      objectGroup |-> tr[e].objectGroup])
                           ELSE @]
          /\ lastOp' = IF switched
                       THEN [Op("setTransformMode", e, mode) EXCEPT
                               !.moved = (preWarp[e] # None
                                          /\ tr[e].proxyRect # preWarp[e][1].proxyRect)]
                       ELSE Op("other", Null, "ok")
  /\ UNCHANGED <<mutex, microtasks, applyTasks, calcTimer, workerReqs,
                 transformingAdapter, envVars, watch>>

(***************************************************************************)
(* Pointer-driven operations, delivered while the node listens.           *)
(***************************************************************************)
\* The konva transformer resizes and rotates the proxy rect.
OnTransform(e) ==
  /\ microtasks = <<>>
  /\ tr[e].isTransformEnabled
  /\ \E scale \in Scales, rotation \in Rotations :
       tr' = [tr EXCEPT ![e] = syncObjectGroupWithProxyRect(
                                 [@ EXCEPT !.proxyRect.scaleX = scale, !.proxyRect.scaleY = scale,
                                           !.proxyRect.rotation = rotation])]
  /\ lastOp' = Op("other", Null, "ok")
  /\ UNCHANGED <<mutex, microtasks, applyTasks, calcTimer, workerReqs,
                 transformingAdapter, frameVars>>

\* Where the pointer drags the proxy rect to, and the position grid size.
DragTargets == {[x |-> 1, y |-> 0]}
DragGridSizes == {1, 2}

\* Variant of onDragMove that leaves the proxy rect where the pointer put it.
onDragMoveUnsnapped(s, pos, gridSize) ==
  [s EXCEPT !.proxyRect.x = pos.x, !.proxyRect.y = pos.y,
            !.objectGroup.x = pos.x, !.objectGroup.y = pos.y]

\* Konva moves the dragged proxy rect to pos; onDragMove snaps it to the grid
\* and moves the object group with it.
onDragMove(s, pos, gridSize) ==
  [s EXCEPT !.proxyRect.x = roundToMultiple(pos.x, 1, gridSize),
            !.proxyRect.y = roundToMultiple(pos.y, 1, gridSize),
            !.objectGroup.x = roundToMultiple(pos.x, 1, gridSize),
            !.objectGroup.y = roundToMultiple(pos.y, 1, gridSize)]

\* Variant of onDragEnd that pushes the position during a session too.
onDragEndAlways(s) ==
  updatePosition([s EXCEPT !.position = [x |-> s.proxyRect.x - s.pixelRect.x,
                                          y |-> s.proxyRect.y - s.pixelRect.y]])

\* onDragEnd: nothing during a session; otherwise setEntityPosition gives the
\* store the position, and the entity's render of it calls updatePosition.
onDragEnd(s) ==
  IF s.isTransforming THEN s
  ELSE updatePosition([s EXCEPT !.position = [x |-> s.proxyRect.x - s.pixelRect.x,
                                              y |-> s.proxyRect.y - s.pixelRect.y]])

OnDragMove(e) ==
  /\ microtasks = <<>>
  /\ tr[e].isDragEnabled
  /\ \E pos \in DragTargets, gridSize \in DragGridSizes :
       /\ tr' = [tr EXCEPT ![e] = onDragMove(@, pos, gridSize)]
       /\ lastOp' = [Op("onDragMove", e, "ok") EXCEPT !.grid = gridSize]
  /\ UNCHANGED <<mutex, microtasks, applyTasks, calcTimer, workerReqs,
                 transformingAdapter, frameVars>>

OnDragEnd(e) ==
  /\ microtasks = <<>>
  /\ tr[e].isDragEnabled
  /\ tr' = [tr EXCEPT ![e] = onDragEnd(@)]
  /\ lastOp' = Op("onDragEnd", e, IF tr[e].isTransforming THEN "ignored" ELSE "committed")
  /\ UNCHANGED <<mutex, microtasks, applyTasks, calcTimer, workerReqs,
                 transformingAdapter, frameVars>>

WarpKeys == {"br"}
WarpDragTargets == {[x |-> 1, y |-> 1]}

onWarpAnchorDragMoveBody(s, key, pos) ==
  IF s.warpCorners = None \/ ~s.warpSourceCanvas THEN s
  ELSE updateWarpBBoxFromCorners(
         [s EXCEPT !.warpCorners = Some([s.warpCorners[1] EXCEPT ![key] = pos])])

OnWarpAnchorDragMove(e) ==
  /\ microtasks = <<>>
  /\ tr[e].warpListening
  /\ \E key \in WarpKeys, pos \in WarpDragTargets :
       tr' = [tr EXCEPT ![e] = onWarpAnchorDragMoveBody(@, key, pos)]
  /\ lastOp' = Op("warpDrag", e, "ok")
  /\ UNCHANGED <<mutex, microtasks, applyTasks, calcTimer, workerReqs,
                 transformingAdapter, frameVars>>

\* Pointer movements of a drag of the whole quad or of one side, and the range
\* the corners are kept in.
WarpDragDeltas == {[x |-> 1, y |-> 0]}
WarpSides == {"tm", "mr", "bm", "ml"}
\* The sides whose anchors are dragged.
DraggedSides == {"mr"}
MaxCoord == 3

movePoint(p, d) == [x |-> p.x + d.x, y |-> p.y + d.y]

cornersInRange(c) ==
  \A k \in {"tl", "tr", "br", "bl"} :
    c[k].x \in -MaxCoord..MaxCoord /\ c[k].y \in -MaxCoord..MaxCoord

\* warpDragStartCorners stands for itself and for warpDragStartPointer, which are
\* set and cleared together; a move is given by the pointer's distance from
\* warpDragStartPointer.
onWarpDragStartBody(s) ==
  IF s.warpCorners = None THEN s
  ELSE [s EXCEPT !.warpDragStartCorners = s.warpCorners]

onWarpDragMoveBody(s, d) ==
  IF s.warpDragStartCorners = None THEN s
  ELSE LET c == s.warpDragStartCorners[1]
       IN updateWarpBBoxFromCorners(
            [s EXCEPT !.warpCorners = Some([tl |-> movePoint(c.tl, d), tr |-> movePoint(c.tr, d),
                                            br |-> movePoint(c.br, d), bl |-> movePoint(c.bl, d)])])

onWarpDragEndBody(s) == [s EXCEPT !.warpDragStartCorners = None]

\* warpSideDrag holds warpSideDragKey and warpSideDragStartCorners (and stands for
\* warpSideDragStartPointer).
onWarpSideDragStartBody(s, key) ==
  IF s.warpCorners = None THEN s
  ELSE [s EXCEPT !.warpSideDrag = Some([key |-> key, corners |-> s.warpCorners[1]])]

sideDragCorners(c, key, d) ==
  CASE key = "tm" -> [c EXCEPT !.tl = movePoint(c.tl, d), !.tr = movePoint(c.tr, d)]
    [] key = "mr" -> [c EXCEPT !.tr = movePoint(c.tr, d), !.br = movePoint(c.br, d)]
    [] key = "bm" -> [c EXCEPT !.br = movePoint(c.br, d), !.bl = movePoint(c.bl, d)]
    [] key = "ml" -> [c EXCEPT !.tl = movePoint(c.tl, d), !.bl = movePoint(c.bl, d)]
    [] OTHER -> c

onWarpSideDragMoveBody(s, d) ==
  IF s.warpSideDrag = None THEN s
  ELSE updateWarpBBoxFromCorners(
         [s EXCEPT !.warpCorners =
            Some(sideDragCorners(s.warpSideDrag[1].corners, s.warpSideDrag[1].key, d))])

onWarpSideDragEndBody(s) == [s EXCEPT !.warpSideDrag = None]

\* The handlers of the warp group's nodes.  A drag starts on a node that
\* listens; its dragmove and dragend events go to the dragged node until the
\* drag has ended, whether or not the node still listens.
OnWarpDragStart(e) ==
  /\ microtasks = <<>>
  /\ tr[e].warpListening
  /\ tr' = [tr EXCEPT ![e] = onWarpDragStartBody(@)]
  /\ lastOp' = Op("other", Null, "ok")
  /\ UNCHANGED <<mutex, microtasks, applyTasks, calcTimer, workerReqs,
                 transformingAdapter, frameVars>>

OnWarpDragMove(e) ==
  /\ microtasks = <<>>
  /\ tr[e].warpListening \/ tr[e].warpDragStartCorners # None
  /\ \E d \in WarpDragDeltas :
       LET next == onWarpDragMoveBody(tr[e], d)
       IN /\ next.warpCorners = None \/ cornersInRange(next.warpCorners[1])
          /\ tr' = [tr EXCEPT ![e] = next]
  /\ lastOp' = Op("warpDrag", e, "ok")
  /\ UNCHANGED <<mutex, microtasks, applyTasks, calcTimer, workerReqs,
                 transformingAdapter, frameVars>>

OnWarpDragEnd(e) ==
  /\ microtasks = <<>>
  /\ tr[e].warpListening \/ tr[e].warpDragStartCorners # None
  /\ tr' = [tr EXCEPT ![e] = onWarpDragEndBody(@)]
  /\ lastOp' = Op("other", Null, "ok")
  /\ UNCHANGED <<mutex, microtasks, applyTasks, calcTimer, workerReqs,
                 transformingAdapter, frameVars>>

OnWarpSideDragStart(e) ==
  /\ microtasks = <<>>
  /\ tr[e].warpListening
  /\ \E key \in DraggedSides :
       tr' = [tr EXCEPT ![e] = onWarpSideDragStartBody(@, key)]
  /\ lastOp' = Op("other", Null, "ok")
  /\ UNCHANGED <<mutex, microtasks, applyTasks, calcTimer, workerReqs,
                 transformingAdapter, frameVars>>

OnWarpSideDragMove(e) ==
  /\ microtasks = <<>>
  /\ tr[e].warpListening \/ tr[e].warpSideDrag # None
  /\ \E d \in WarpDragDeltas :
       LET next == onWarpSideDragMoveBody(tr[e], d)
       IN /\ next.warpCorners = None \/ cornersInRange(next.warpCorners[1])
          /\ tr' = [tr EXCEPT ![e] = next]
  /\ lastOp' = Op("warpDrag", e, "ok")
  /\ UNCHANGED <<mutex, microtasks, applyTasks, calcTimer, workerReqs,
                 transformingAdapter, frameVars>>

OnWarpSideDragEnd(e) ==
  /\ microtasks = <<>>
  /\ tr[e].warpListening \/ tr[e].warpSideDrag # None
  /\ tr' = [tr EXCEPT ![e] = onWarpSideDragEndBody(@)]
  /\ lastOp' = Op("other", Null, "ok")
  /\ UNCHANGED <<mutex, microtasks, applyTasks, calcTimer, workerReqs,
                 transformingAdapter, frameVars>>

(***************************************************************************)
(* Fit to bbox.  width and height are those of the proxy rect, rect is the *)
(* bbox of the store and gridSize its position grid size; the result is    *)
(* the attributes the proxy rect is given.                                 *)
(***************************************************************************)
fitFill(width, height, rect) ==
  [ x |-> Num(rect.x), y |-> Num(rect.y),
    scaleX |-> FDiv(Num(rect.width), Num(width)),
    scaleY |-> FDiv(Num(rect.height), Num(height)),
    rotation |-> 0 ]

fitContain(width, height, rect, gridSize) ==
  LET scaleX == FDiv(Num(rect.width), Num(width))
      scaleY == FDiv(Num(rect.height), Num(height))
      scale == FMin(scaleX, scaleY)
      scaledWidth == FMul(Num(width), scale)
      scaledHeight == FMul(Num(height), scale)
      centerX == FAdd(Num(rect.x), FDiv(FSub(Num(rect.width), scaledWidth), Num(2)))
      centerY == FAdd(Num(rect.y), FDiv(FSub(Num(rect.height), scaledHeight), Num(2)))
      roundedX == IF gridSize > 1 THEN FRoundToMultiple(centerX, Num(gridSize)) ELSE centerX
      roundedY == IF gridSize > 1 THEN FRoundToMultiple(centerY, Num(gridSize)) ELSE centerY
  IN [ x |-> FClamp(roundedX, Num(rect.x),
                    FSub(FAdd(Num(rect.x), Num(rect.width)), scaledWidth)),
       y |-> FClamp(roundedY, Num(rect.y),
                    FSub(FAdd(Num(rect.y), Num(rect.height)), scaledHeight)),
       scaleX |-> scale, scaleY |-> scale, rotation |-> 0 ]

fitCover(width, height, rect, gridSize) ==
  LET scaleX == FDiv(Num(rect.width), Num(width))
      scaleY == FDiv(Num(rect.height), Num(height))
      scale == FMax(scaleX, scaleY)
      scaledWidth == FMul(Num(width), scale)
      scaledHeight == FMul(Num(height), scale)
      centerX == FAdd(Num(rect.x), FDiv(FSub(Num(rect.width), scaledWidth), Num(2)))
      centerY == FAdd(Num(rect.y), FDiv(FSub(Num(rect.height), scaledHeight), Num(2)))
  IN [ x |-> IF DLess(Num(rect.width), scaledWidth)
             THEN (IF gridSize > 1 THEN FRoundToMultiple(centerX, Num(gridSize)) ELSE centerX)
             ELSE Num(rect.x),
       y |-> IF DLess(Num(rect.height), scaledHeight)
             THEN (IF gridSize > 1 THEN FRoundToMultiple(centerY, Num(gridSize)) ELSE centerY)
             ELSE Num(rect.y),
       scaleX |-> scale, scaleY |-> scale, rotation |-> 0 ]

\* The bboxes and position grid sizes of the store that the fit operations of a
\* session meet.  With the 2 x 2 proxy rect of a loaded entity every attribute
\* they produce is a whole number, which FToInt turns into the integer the
\* proxy rect holds.
StoreBboxes == {[x |-> 0, y |-> 0, width |-> 4, height |-> 4],
                [x |-> 2, y |-> 0, width |-> 4, height |-> 8]}
StoreGridSizes == {1, 8}
FitOps == {"fitToBboxFill", "fitToBboxContain", "fitToBboxCover"}

\* proxyRect.setAttrs({ x, y, scaleX, scaleY, rotation: 0 }); syncObjectGroupWithProxyRect()
applyFit(s, attrs) ==
  syncObjectGroupWithProxyRect(
    [s EXCEPT !.proxyRect.x = FToInt(attrs.x), !.proxyRect.y = FToInt(attrs.y),
              !.proxyRect.scaleX = FToInt(attrs.scaleX),
              !.proxyRect.scaleY = FToInt(attrs.scaleY),
              !.proxyRect.rotation = attrs.rotation])

\* Variant of fitToBbox without the check of $isTransformEnabled.
fitToBboxUnguarded(s, attrs) == applyFit(s, attrs)

\* if (!$isTransformEnabled.get()) { log.warn(...); return; }
fitToBbox(s, attrs) == IF ~s.isTransformEnabled THEN s ELSE applyFit(s, attrs)

FitToBboxFill(e) ==
  /\ microtasks = <<>>
  /\ \E rect \in StoreBboxes :
       tr' = [tr EXCEPT ![e] = fitToBbox(@, fitFill(@.proxyRect.width, @.proxyRect.height, rect))]
  /\ lastOp' = Op("fitToBboxFill", e, IF tr[e].isTransformEnabled THEN "ok" ELSE "rejected")
  /\ UNCHANGED <<mutex, microtasks, applyTasks, calcTimer, workerReqs,
                 transformingAdapter, frameVars>>

FitToBboxContain(e) ==
  /\ microtasks = <<>>
  /\ \E rect \in StoreBboxes, gridSize \in StoreGridSizes :
       tr' = [tr EXCEPT ![e] = fitToBbox(@, fitContain(@.proxyRect.width, @.proxyRect.height, rect, gridSize))]
  /\ lastOp' = Op("fitToBboxContain", e, IF tr[e].isTransformEnabled THEN "ok" ELSE "rejected")
  /\ UNCHANGED <<mutex, microtasks, applyTasks, calcTimer, workerReqs,
                 transformingAdapter, frameVars>>

FitToBboxCover(e) ==
  /\ microtasks = <<>>
  /\ \E rect \in StoreBboxes, gridSize \in StoreGridSizes :
       tr' = [tr EXCEPT ![e] = fitToBbox(@, fitCover(@.proxyRect.width, @.proxyRect.height, rect, gridSize))]
  /\ lastOp' = Op("fitToBboxCover", e, IF tr[e].isTransformEnabled THEN "ok" ELSE "rejected")
  /\ UNCHANGED <<mutex, microtasks, applyTasks, calcTimer, workerReqs,
                 transformingAdapter, frameVars>>

(***************************************************************************)
(* The subscriptions of the constructor: each runs syncInteractionState of *)
(* every transformer.                                                      *)
(***************************************************************************)
syncAll(g) == [e \in Entities |-> syncInteractionState(tr[e], e, g)]

SetTool ==
  /\ microtasks = <<>>
  /\ \E t \in Tools \ {tool} :
       /\ tool' = t
       /\ tr' = syncAll([Globals(transformingAdapter) EXCEPT !.tool = t])
  /\ lastOp' = Op("syncInteractionState", Null, "ok")
  /\ UNCHANGED <<mutex, microtasks, applyTasks, calcTimer, workerReqs, transformingAdapter,
                 selected, isLocked, isStaging, isSegmenting, isFiltering, isEmpty, calc, preWarp, watch>>

SelectEntity(x) ==
  /\ microtasks = <<>>
  /\ x # selected
  /\ selected' = x
  /\ tr' = syncAll([Globals(transformingAdapter) EXCEPT !.selected = x])
  /\ lastOp' = Op("syncInteractionState", Null, "ok")
  /\ UNCHANGED <<mutex, microtasks, applyTasks, calcTimer, workerReqs, transformingAdapter,
                 tool, isLocked, isStaging, isSegmenting, isFiltering, isEmpty, calc, preWarp, watch>>

\* manager.$isBusy changed.
OnBusyChanged ==
  /\ microtasks = <<>>
  /\ tr' = syncAll(Globals(transformingAdapter))
  /\ lastOp' = Op("syncInteractionState", Null, "ok")
  /\ UNCHANGED <<mutex, microtasks, applyTasks, calcTimer, workerReqs, transformingAdapter,
                 frameVars>>

\* The entity's lock flag changes in the store.
SetLocked(e) ==
  /\ microtasks = <<>>
  /\ isLocked' = [isLocked EXCEPT ![e] = ~@]
  /\ lastOp' = Op("other", Null, "ok")
  /\ UNCHANGED <<tr, mutex, microtasks, applyTasks, calcTimer, workerReqs, transformingAdapter,
                 tool, selected, isStaging, isSegmenting, isFiltering, isEmpty, calc, preWarp, watch>>

\* The state once the first bounding box of every entity has been computed
\* (calculateRect's client-rect path, then updateBbox).
Loaded(e) ==
  updateBbox([InitTransformer EXCEPT !.nodeRect = FullRect, !.pixelRect = FullRect],
             e, Globals(Null), TRUE).s

LoadedState ==
  /\ mutex = [e \in Entities |-> NewMutex]
  /\ microtasks = <<>>
  /\ applyTasks = [e \in Entities |-> <<>>]
  /\ calcTimer = [e \in Entities |-> FALSE]
  /\ workerReqs = [e \in Entities |-> 0]
  /\ transformingAdapter = Null
  /\ tool = "move"
  /\ selected = "e1"
  /\ isLocked = [e \in Entities |-> FALSE]
  /\ isStaging = FALSE
  /\ isSegmenting = [e \in Entities |-> FALSE]
  /\ isFiltering = [e \in Entities |-> FALSE]
  /\ isEmpty = [e \in Entities |-> FALSE]
  /\ tr = [e \in Entities |-> Loaded(e)]
  /\ lastOp = Op("other", Null, "ok")
  /\ preWarp = [e \in Entities |-> None]
  /\ calc = NoCalc

InitLoaded == LoadedState /\ watch = NoWatch

\* The same state with the bbox passes counted from the next watched call on.
InitWatched == LoadedState /\ watch = StartWatch(0)

\* The lock protocol of one transformer: every call and continuation that takes
\* or releases its transformMutex.
LockProtocol(e) ==
  \/ StartTransform(e)
  \/ StartTransformResume(e)
  \/ StopTransform(e)
  \/ RequestRectCalculation(e)
  \/ RequestRectCalculationResume(e)
  \/ CalculateRect(e)
  \/ WorkerResponse(e)

\* One transformer: its lock protocol, applyTransform and the affine gesture.
Next ==
  \/ LockProtocol("e1")
  \/ ApplyTransform("e1")
  \/ ApplyTransformResume("e1")
  \/ OnTransform("e1")

Spec == Init /\ [][Next]_vars

\* Two transformers, each with its own transformMutex: e1 with its whole lock
\* protocol, e2 with sessions only.
NextTwo ==
  \/ LockProtocol("e1")
  \/ StartTransform("e2")
  \/ StartTransformResume("e2")
  \/ StopTransform("e2")

SpecTwo == Init /\ [][NextTwo]_vars

\* One transformer through whole sessions: pointer input, both transform modes,
\* apply and cancel.  Rect calculations are the ones applyTransform requests.
NextSession ==
  \/ StartTransform("e1")
  \/ StartTransformResume("e1")
  \/ StopTransform("e1")
  \/ RequestRectCalculationResume("e1")
  \/ CalculateRect("e1")
  \/ WorkerResponse("e1")
  \/ ApplyTransform("e1")
  \/ ApplyTransformResume("e1")
  \/ SetTransformMode("e1")
  \/ OnTransform("e1")
  \/ OnWarpAnchorDragMove("e1")

SpecSession == InitLoaded /\ [][NextSession]_vars

\* One transformer through sessions that end with applyTransform, in both
\* transform modes and under a changing tool; the bbox passes are counted from
\* each applyTransform.
NextApply ==
  \/ StartTransform("e1")
  \/ StartTransformResume("e1")
  \/ RequestRectCalculationResume("e1")
  \/ CalculateRect("e1")
  \/ WorkerResponse("e1")
  \/ ApplyTransform("e1")
  \/ ApplyTransformResume("e1")
  \/ SetTransformMode("e1")
  \/ OnWarpAnchorDragMove("e1")
  \/ SetTool

SpecApply == InitWatched /\ [][NextApply]_vars

\* One transformer through sessions in which the fit operations are invoked,
\* in both transform modes and outside a session, under a changing tool.
NextFitting ==
  \/ StartTransform("e1")
  \/ StartTransformResume("e1")
  \/ StopTransform("e1")
  \/ SetTransformMode("e1")
  \/ SetTool
  \/ OnTransform("e1")
  \/ FitToBboxFill("e1")
  \/ FitToBboxContain("e1")
  \/ FitToBboxCover("e1")

SpecFitting == InitLoaded /\ [][NextFitting]_vars

\* One transformer through sessions with every gesture of both transform modes.
NextWarp ==
  \/ StartTransform("e1")
  \/ StartTransformResume("e1")
  \/ StopTransform("e1")
  \/ SetTransformMode("e1")
  \/ OnTransform("e1")
  \/ OnWarpAnchorDragMove("e1")
  \/ OnWarpDragStart("e1")
  \/ OnWarpDragMove("e1")
  \/ OnWarpDragEnd("e1")
  \/ OnWarpSideDragStart("e1")
  \/ OnWarpSideDragMove("e1")
  \/ OnWarpSideDragEnd("e1")

SpecWarp == InitLoaded /\ [][NextWarp]_vars

\* One transformer through sessions that are cancelled, also in the middle of a
\* drag of the proxy rect and of a warp drag.
NextCancel ==
  \/ StartTransform("e1")
  \/ StartTransformResume("e1")
  \/ StopTransform("e1")
  \/ SetTransformMode("e1")
  \/ OnTransform("e1")
  \/ OnDragMove("e1")
  \/ OnDragEnd("e1")
  \/ OnWarpAnchorDragMove("e1")
  \/ OnWarpDragStart("e1")
  \/ OnWarpDragMove("e1")
  \/ OnWarpDragEnd("e1")

SpecCancel == InitLoaded /\ [][NextCancel]_vars

\* One burst of bbox requests on an idle transformer, under changing tool,
\* selection and lock flag.
NextBurst ==
  \/ RequestRectCalculationBurst("e1")
  \/ RequestRectCalculationResume("e1")
  \/ CalculateRect("e1")
  \/ WorkerResponse("e1")
  \/ SetTool
  \/ SetLocked("e1")

SpecBurst == InitWatched /\ [][NextBurst]_vars

\* One transformer under changing tool, selection and lock flag.
NextInteraction ==
  \/ LockProtocol("e1")
  \/ SetTool
  \/ SelectEntity("e1")
  \/ SelectEntity(Null)
  \/ SetLocked("e1")
  \/ OnBusyChanged

SpecInteraction == Init /\ [][NextInteraction]_vars

\* Every combination of what syncInteractionState reads, for e1: the store and
\* manager flags, the tool, the selection, which entity (if any) is the
\* transforming adapter, a pending rect calculation and an empty or non-empty
\* pixel rect.  Each transformer has been synced in that situation.
InitSync ==
  /\ tool \in Tools
  /\ selected \in {"e1", Null}
  /\ isStaging \in BOOLEAN
  /\ isLocked \in {[e \in Entities |-> e = "e1" /\ b] : b \in BOOLEAN}
  /\ isSegmenting \in {[e \in Entities |-> e = "e1" /\ b] : b \in BOOLEAN}
  /\ isFiltering \in {[e \in Entities |-> e = "e1" /\ b] : b \in BOOLEAN}
  /\ isEmpty \in {[e \in Entities |-> e = "e1" /\ b] : b \in BOOLEAN}
  /\ transformingAdapter \in Entities \cup {Null}
  /\ \E pending \in BOOLEAN, rect \in ClientRects :
       /\ tr = [e \in Entities |->
                  syncInteractionState(
                    IF e = "e1"
                    THEN update([InitTransformer EXCEPT
                                   !.nodeRect = rect, !.pixelRect = rect,
                                   !.isPendingRectCalculation = pending,
                                   !.isTransforming = (transformingAdapter = e)], rect)
                    ELSE [InitTransformer EXCEPT !.isTransforming = (transformingAdapter = e)],
                    e, Globals(transformingAdapter))]
       /\ mutex = [e \in Entities |->
                     IF transformingAdapter = e
                     THEN [locked |-> TRUE, holder |-> "session", queue |-> <<>>]
                     ELSE IF e = "e1" /\ pending
                          THEN [locked |-> TRUE, holder |-> "rect", queue |-> <<>>]
                          ELSE NewMutex]
       /\ calcTimer = [e \in Entities |-> e = "e1" /\ pending]
  /\ microtasks = <<>>
  /\ applyTasks = [e \in Entities |-> <<>>]
  /\ workerReqs = [e \in Entities |-> 0]
  /\ lastOp = Op("other", Null, "ok")
  /\ preWarp = [e \in Entities |-> None]
  /\ watch = NoWatch
  /\ calc = NoCalc

\* The subscriptions that run syncInteractionState, over every such situation.
NextSync ==
  \/ SetTool
  \/ SelectEntity("e1")
  \/ SelectEntity(Null)
  \/ SetLocked("e1")
  \/ OnBusyChanged

SpecSync == InitSync /\ [][NextSync]_vars

(***************************************************************************)
(* Geometry functions, evaluated on inputs drawn from bounded sets.  While *)
(* one is evaluated the transformers stay as constructed.                  *)
(***************************************************************************)
Idle ==
  /\ tr = [e \in Entities |-> InitTransformer]
  /\ mutex = [e \in Entities |-> NewMutex]
  /\ microtasks = <<>>
  /\ applyTasks = [e \in Entities |-> <<>>]
  /\ calcTimer = [e \in Entities |-> FALSE]
  /\ workerReqs = [e \in Entities |-> 0]
  /\ transformingAdapter = Null
  /\ tool = "move"
  /\ selected = "e1"
  /\ isLocked = [e \in Entities |-> FALSE]
  /\ isStaging = FALSE
  /\ isSegmenting = [e \in Entities |-> FALSE]
  /\ isFiltering = [e \in Entities |-> FALSE]
  /\ isEmpty = [e \in Entities |-> FALSE]
  /\ lastOp = Op("other", Null, "ok")
  /\ preWarp = [e \in Entities |-> None]
  /\ watch = NoWatch

\* Everything but calc.
machineVars == <<tr, mutex, microtasks, applyTasks, calcTimer, workerReqs, transformingAdapter,
                 tool, selected, isLocked, isStaging, isSegmenting, isFiltering, isEmpty, lastOp,
                 preWarp, watch>>

(***************************************************************************)
(* The pan-compensated grid snap.  Positions, the stage scale and the      *)
(* stage position are integers here.                                       *)
(***************************************************************************)
\* One axis: targetX * stageScale + scaledOffsetX.
scaledTarget(p, gridSize, stageScale, stagePos) ==
  LET target == roundToMultiple(p, stageScale, gridSize)
      scaledOffset == Rem(stagePos, stageScale * gridSize)
  IN target * stageScale + scaledOffset

snapWarpAnchor(pos, gridSize, stageScale, stagePos) ==
  IF gridSize <= 1 THEN pos
  ELSE [x |-> scaledTarget(pos.x, gridSize, stageScale, stagePos.x),
        y |-> scaledTarget(pos.y, gridSize, stageScale, stagePos.y)]

\* activeAnchor: the konva transformer's active anchor; positionGridSize:
\* getPositionGridSize().
anchorDragBoundFunc(newPos, activeAnchor, shiftKey, positionGridSize, stageScale, stagePos) ==
  IF activeAnchor = "rotater" THEN newPos
  ELSE LET gridSize == IF shiftKey THEN positionGridSize ELSE 1
       IN [x |-> scaledTarget(newPos.x, gridSize, stageScale, stagePos.x),
           y |-> scaledTarget(newPos.y, gridSize, stageScale, stagePos.y)]

\* How often a snap is applied to its own result.
MaxSnaps == 2
SnapCoords == -2..2
GridSizes == {1, 2, 8}
StageScales == {1, 2}
StagePans == {-3, 0, 1, 4}
ActiveAnchors == {"rotater", "bottom-right"}

InitSnap ==
  /\ Idle
  /\ \E px \in SnapCoords, py \in {0}, g \in GridSizes, sc \in StageScales,
        sx \in StagePans, sy \in {0}, shift \in BOOLEAN, anchor \in ActiveAnchors :
       calc = [fn |-> "input", pos |-> [x |-> px, y |-> py], prev |-> [x |-> px, y |-> py],
               gridSize |-> g, stageScale |-> sc, stagePos |-> [x |-> sx, y |-> sy],
               shiftKey |-> shift, activeAnchor |-> anchor, count |-> 0]

SnapWarpAnchor ==
  /\ calc.fn \in {"input", "snapWarpAnchor"}
  /\ calc.count < MaxSnaps
  /\ calc' = [calc EXCEPT !.fn = "snapWarpAnchor",
                          !.prev = calc.pos,
                          !.pos = snapWarpAnchor(calc.pos, calc.gridSize, calc.stageScale, calc.stagePos),
                          !.count = @ + 1]
  /\ UNCHANGED machineVars

AnchorDragBound ==
  /\ calc.fn \in {"input", "anchorDragBoundFunc"}
  /\ calc.count < MaxSnaps
  /\ calc' = [calc EXCEPT !.fn = "anchorDragBoundFunc",
                          !.prev = calc.pos,
                          !.pos = anchorDragBoundFunc(calc.pos, calc.activeAnchor, calc.shiftKey,
                                                      calc.gridSize, calc.stageScale, calc.stagePos),
                          !.count = @ + 1]
  /\ UNCHANGED machineVars

NextSnap ==
  \/ SnapWarpAnchor
  \/ AnchorDragBound

SpecSnap == InitSnap /\ [][NextSnap]_vars

(***************************************************************************)
(* The rects of calculateRect on client rects with fractional position and *)
(* size.  Lengths are in units of 1/SubPixel pixel.                        *)
(***************************************************************************)
SubPixel == 4
\* Math.ceil(n / d) for d > 0.
MathCeil(n, d) == -((-n) \div d)

\* objectGroup.getClientRect({ skipTransform: true })
FractionalRects ==
  { [x |-> x, y |-> y, width |-> w, height |-> h] :
      x \in {-2, 0, 3}, y \in {0, 2}, w \in 1..7, h \in {4, 6} }

\* The extents the worker can find in the pixels of a canvas that holds rect.
ExtentsIn(rect) ==
  { [minX |-> x0, minY |-> y0, maxX |-> x1, maxY |-> y1] :
      x0 \in 0..MathCeil(rect.width, SubPixel), x1 \in 0..MathCeil(rect.width, SubPixel),
      y0 \in 0..MathCeil(rect.height, SubPixel), y1 \in 0..MathCeil(rect.height, SubPixel) }
  \cap { ex \in [minX : Int, minY : Int, maxX : Int, maxY : Int] :
           ex.minX <= ex.maxX /\ ex.minY <= ex.maxY }

InitBbox ==
  /\ Idle
  /\ \E rect \in FractionalRects :
       calc = [fn |-> "input", rect |-> rect, nodeRect |-> getEmptyRect, pixelRect |-> getEmptyRect]

\* needsPixelBbox() is false: both rects are the client rect.
ClientRectPath ==
  /\ calc.fn = "input"
  /\ calc' = [calc EXCEPT !.fn = "clientRect", !.nodeRect = calc.rect, !.pixelRect = calc.rect]
  /\ UNCHANGED machineVars

\* The worker answers with extents.
WorkerExtentsPath ==
  /\ calc.fn = "input"
  /\ \E ex \in ExtentsIn(calc.rect) :
       LET r == workerRects(calc.rect, SubPixel, Some(ex))
       IN calc' = [calc EXCEPT !.fn = "workerExtents", !.nodeRect = r.nodeRect,
                               !.pixelRect = r.pixelRect]
  /\ UNCHANGED machineVars

\* The worker answers null.
WorkerNullPath ==
  /\ calc.fn = "input"
  /\ LET r == workerRects(calc.rect, SubPixel, None)
     IN calc' = [calc EXCEPT !.fn = "workerNull", !.nodeRect = r.nodeRect,
                             !.pixelRect = r.pixelRect]
  /\ UNCHANGED machineVars

NextBbox ==
  \/ ClientRectPath
  \/ WorkerExtentsPath
  \/ WorkerNullPath

SpecBbox == InitBbox /\ [][NextBbox]_vars

(***************************************************************************)
(* The three fits on proxy rects and bboxes drawn from bounded sets.       *)
(***************************************************************************)
ProxySizes == 1..3
BboxOrigins == {0, 3}
BboxSizes == {1, 2, 5, 8}

InitFit ==
  /\ Idle
  /\ \E w \in ProxySizes, h \in ProxySizes, rx \in BboxOrigins, ry \in {0},
        rw \in BboxSizes, rh \in BboxSizes, g \in GridSizes :
       calc = [fn |-> "input", width |-> w, height |-> h,
               rect |-> [x |-> rx, y |-> ry, width |-> rw, height |-> rh],
               gridSize |-> g,
               attrs |-> [x |-> Num(0), y |-> Num(0), scaleX |-> Num(1), scaleY |-> Num(1),
                          rotation |-> 0]]

ApplyFitFill ==
  /\ calc.fn = "input"
  /\ calc' = [calc EXCEPT !.fn = "fitToBboxFill",
                          !.attrs = fitFill(calc.width, calc.height, calc.rect)]
  /\ UNCHANGED machineVars

ApplyFitContain ==
  /\ calc.fn = "input"
  /\ calc' = [calc EXCEPT !.fn = "fitToBboxContain",
                          !.attrs = fitContain(calc.width, calc.height, calc.rect, calc.gridSize)]
  /\ UNCHANGED machineVars

ApplyFitCover ==
  /\ calc.fn = "input"
  /\ calc' = [calc EXCEPT !.fn = "fitToBboxCover",
                          !.attrs = fitCover(calc.width, calc.height, calc.rect, calc.gridSize)]
  /\ UNCHANGED machineVars

NextFit ==
  \/ ApplyFitFill
  \/ ApplyFitContain
  \/ ApplyFitCover

SpecFit == InitFit /\ [][NextFit]_vars

(***************************************************************************)
(* The homography of the warp, in the numbers of the floating point model. *)
(* A matrix is a tuple of rows, a row a tuple of numbers.                  *)
(***************************************************************************)
DAbs(a) == [m |-> Abs(a.m), e |-> a.e]
NumPoint(p) == [x |-> Num(p.x), y |-> Num(p.y)]

\* new Array(8).fill(0)
ZeroVector == [i \in 1..8 |-> Num(0)]

\* The two rows that computeHomography pushes for the correspondence s -> d,
\* with b as the last column.
homographyRows(s, d) ==
  LET x == Num(s.x)
      y == Num(s.y)
      u == Num(d.x)
      v == Num(d.y)
  IN << <<x, y, Num(1), Num(0), Num(0), Num(0), FMul(FNeg(u), x), FMul(FNeg(u), y), u>>,
        <<Num(0), Num(0), Num(0), x, y, Num(1), FMul(FNeg(v), x), FMul(FNeg(v), y), v>> >>

\* The first row from col on whose entry in col has the largest absolute value.
pivotRowOf(M, col) ==
  CHOOSE r \in col..8 :
    \A q \in col..8 :
      /\ DLeq(DAbs(M[q][col]), DAbs(M[r][col]))
      /\ q < r => DLess(DAbs(M[q][col]), DAbs(M[r][col]))

\* The passes of the loop over col, for a pivot that is not zero.
\* Rows col and pivotRow change places.
swapRows(M, col, pivotRow) == [M EXCEPT ![col] = M[pivotRow], ![pivotRow] = M[col]]

\* colData[c] = value / pivot for c from col on
dividePivotRow(row, col) ==
  LET cv(c) == IF c >= col THEN FDiv(row[c], row[col]) ELSE row[c]
  IN <<cv(1), cv(2), cv(3), cv(4), cv(5), cv(6), cv(7), cv(8), cv(9)>>

\* rowData[c] = rowValue - factor * colValue for c from col on, in every row but col
subtractPivotRow(M, col, colData) ==
  LET rv(row, c) == IF c >= col
                    THEN FSub(M[row][c], FMul(M[row][col], colData[c]))
                    ELSE M[row][c]
      rowData(row) == IF row = col THEN colData
                      ELSE <<rv(row, 1), rv(row, 2), rv(row, 3), rv(row, 4), rv(row, 5),
                             rv(row, 6), rv(row, 7), rv(row, 8), rv(row, 9)>>
  IN <<rowData(1), rowData(2), rowData(3), rowData(4),
       rowData(5), rowData(6), rowData(7), rowData(8)>>

\* The matrix [A | b] that computeHomography hands to solveLinearSystem, for
\* sequences src and dst of four points with integer coordinates.
homographySystem(src, dst) ==
  <<homographyRows(src[1], dst[1])[1], homographyRows(src[1], dst[1])[2],
    homographyRows(src[2], dst[2])[1], homographyRows(src[2], dst[2])[2],
    homographyRows(src[3], dst[3])[1], homographyRows(src[3], dst[3])[2],
    homographyRows(src[4], dst[4])[1], homographyRows(src[4], dst[4])[2]>>

\* maxVal === 0 in the pass over col
zeroPivotAt(M, col) == M[pivotRowOf(M, col)][col].m = 0

\* M.map((row) => row[n])
lastColumn(M) == [i \in 1..8 |-> M[i][9]]

\* Variant of applyHomography without the division by the third coordinate.
applyHomographyAffine(h, p) ==
  [x |-> FAdd(FAdd(FMul(h[1], p.x), FMul(h[2], p.y)), h[3]),
   y |-> FAdd(FAdd(FMul(h[4], p.x), FMul(h[5], p.y)), h[6])]

\* p is a point of numbers.
applyHomography(h, p) ==
  LET denom == FAdd(FAdd(FMul(h[7], p.x), FMul(h[8], p.y)), Num(1))
  IN IF denom.m = 0 THEN [x |-> Num(0), y |-> Num(0)]
     ELSE [x |-> FDiv(FAdd(FAdd(FMul(h[1], p.x), FMul(h[2], p.y)), h[3]), denom),
           y |-> FDiv(FAdd(FAdd(FMul(h[4], p.x), FMul(h[5], p.y)), h[6]), denom)]

\* Number.isFinite: every number of the model is a finite m * 2^e.  The solver
\* divides only by a pivot that is not zero.
NumberIsFinite(a) == a.m \in Int /\ a.e \in Int
isValidHomography(h) == Len(h) = 8 /\ \A i \in 1..8 : NumberIsFinite(h[i])

getWarpSegments(width, height, quality) ==
  Max2(4, MathCeil(Max2(width, height), IF quality = "preview" THEN 128 ELSE 64))

\* Twice the signed area of a triangle of numbers, exactly.
triangleArea2(t) ==
  DSub(DMul(DSub(t[2].x, t[1].x), DSub(t[3].y, t[1].y)),
       DMul(DSub(t[3].x, t[1].x), DSub(t[2].y, t[1].y)))

\* drawWarpTriangle draws nothing for a source triangle whose denom is zero, and
\* what it draws is clipped to the destination triangle moved outwards from its
\* centroid: a region without area when the three points are on one line.
\* TRUE when a pixel can be drawn.
drawWarpTriangle(srcTri, dstTri) ==
  LET s0 == srcTri[1]
      s1 == srcTri[2]
      s2 == srcTri[3]
      denom == FAdd(FAdd(FMul(s0.x, FSub(s1.y, s2.y)), FMul(s1.x, FSub(s2.y, s0.y))),
                    FMul(s2.x, FSub(s0.y, s1.y)))
  IN denom.m # 0 /\ triangleArea2(dstTri).m # 0

\* srcPts and dstPts of getWarpedCanvas.
warpSrcPts(srcW, srcH) ==
  <<[x |-> 0, y |-> 0], [x |-> srcW, y |-> 0], [x |-> srcW, y |-> srcH], [x |-> 0, y |-> srcH]>>

warpDstPts(corners) ==
  LET rect == cornerBounds(corners)
  IN <<[x |-> corners.tl.x - rect.x, y |-> corners.tl.y - rect.y],
       [x |-> corners.tr.x - rect.x, y |-> corners.tr.y - rect.y],
       [x |-> corners.br.x - rect.x, y |-> corners.br.y - rect.y],
       [x |-> corners.bl.x - rect.x, y |-> corners.bl.y - rect.y]>>

\* What getWarpedCanvas draws once it has the homography h of a warp source of
\* srcW x srcH.  fallback: the source was drawn stretched over the canvas;
\* painted: a pixel can have been drawn.
drawWarped(srcW, srcH, h, quality) ==
  LET segments == getWarpSegments(srcW, srcH, quality)
  IN IF ~isValidHomography(h)
     THEN [fallback |-> TRUE, painted |-> TRUE]
     ELSE [fallback |-> FALSE,
           painted |->
             \E stepX \in {FDiv(Num(srcW), Num(segments))},
                stepY \in {FDiv(Num(srcH), Num(segments))} :
             \E x \in 0..(segments - 1), y \in 0..(segments - 1) :
             \E p00 \in {[x |-> FMul(Num(x), stepX), y |-> FMul(Num(y), stepY)]},
                p10 \in {[x |-> FMul(Num(x + 1), stepX), y |-> FMul(Num(y), stepY)]},
                p11 \in {[x |-> FMul(Num(x + 1), stepX), y |-> FMul(Num(y + 1), stepY)]},
                p01 \in {[x |-> FMul(Num(x), stepX), y |-> FMul(Num(y + 1), stepY)]} :
             \E d00 \in {applyHomography(h, p00)}, d10 \in {applyHomography(h, p10)},
                d11 \in {applyHomography(h, p11)}, d01 \in {applyHomography(h, p01)} :
               \/ drawWarpTriangle(<<p00, p10, p11>>, <<d00, d10, d11>>)
               \/ drawWarpTriangle(<<p00, p11, p01>>, <<d00, d11, d01>>)]

\* Sizes of the warp source and positions of the warp corners: the corners of a
\* rect, corners dragged inwards, onto another corner and onto the line through
\* two others.
SourceSizes == {[w |-> 2, h |-> 2], [w |-> 3, h |-> 2]}
CornersTL == {[x |-> 0, y |-> 0], [x |-> 1, y |-> 0]}
CornersTR == {[x |-> 3, y |-> 0], [x |-> 2, y |-> 0]}
CornersBR == {[x |-> 3, y |-> 3], [x |-> 2, y |-> 2], [x |-> 1, y |-> 1], [x |-> 2, y |-> 0]}
CornersBL == {[x |-> 0, y |-> 3], [x |-> 0, y |-> 2]}

InitHomography ==
  /\ Idle
  /\ \E size \in SourceSizes, tl \in CornersTL, tr_ \in CornersTR,
        br \in CornersBR, bl \in CornersBL :
       calc = [fn |-> "warp", srcW |-> size.w, srcH |-> size.h,
               corners |-> [tl |-> tl, tr |-> tr_, br |-> br, bl |-> bl]]

\* calc is the position in getWarpedCanvas: "warp" at its entry, "solve" in the
\* loop of solveLinearSystem before the pass over col, "solved" with the
\* homography h returned (zeroPivot: returned at `maxVal === 0`), "drawn" at
\* its return; "roundTrip" holds the images of the four source points under h.

\* getWarpedCanvas up to computeHomography's call of solveLinearSystem.
ComputeHomography ==
  /\ calc.fn = "warp"
  /\ LET src == warpSrcPts(calc.srcW, calc.srcH)
         dst == warpDstPts(calc.corners)
     IN calc' = IF Len(src) # Len(dst) \/ Len(src) < 4
                THEN [fn |-> "solved", srcW |-> calc.srcW, srcH |-> calc.srcH,
                      src |-> src, dst |-> dst, h |-> ZeroVector, zeroPivot |-> FALSE]
                ELSE [fn |-> "solve", srcW |-> calc.srcW, srcH |-> calc.srcH,
                      src |-> src, dst |-> dst, M |-> homographySystem(src, dst), col |-> 1]
  /\ UNCHANGED machineVars

\* One pass of the loop of solveLinearSystem, and its return after the last.
SolveColumn ==
  /\ calc.fn = "solve"
  /\ IF zeroPivotAt(calc.M, calc.col)
     THEN calc' = [fn |-> "solved", srcW |-> calc.srcW, srcH |-> calc.srcH,
                   src |-> calc.src, dst |-> calc.dst, h |-> ZeroVector, zeroPivot |-> TRUE]
     ELSE \E S \in {swapRows(calc.M, calc.col, pivotRowOf(calc.M, calc.col))} :
          \E colData \in {dividePivotRow(S[calc.col], calc.col)} :
          \E M2 \in {subtractPivotRow(S, calc.col, colData)} :
            calc' = IF calc.col = 8
                    THEN [fn |-> "solved", srcW |-> calc.srcW, srcH |-> calc.srcH,
                          src |-> calc.src, dst |-> calc.dst, h |-> lastColumn(M2),
                          zeroPivot |-> FALSE]
                    ELSE [calc EXCEPT !.M = M2, !.col = calc.col + 1]
  /\ UNCHANGED machineVars

\* The rest of getWarpedCanvas.
GetWarpedCanvas ==
  /\ calc.fn = "solved"
  /\ calc' = [fn |-> "drawn", src |-> calc.src, dst |-> calc.dst, h |-> calc.h,
              zeroPivot |-> calc.zeroPivot,
              out |-> drawWarped(calc.srcW, calc.srcH, calc.h, "final")]
  /\ UNCHANGED machineVars

\* applyHomography of the homography to the four source points.
RoundTrip ==
  /\ calc.fn = "solved"
  /\ calc' = [fn |-> "roundTrip", src |-> calc.src, dst |-> calc.dst, h |-> calc.h,
              zeroPivot |-> calc.zeroPivot,
              mapped |-> [i \in 1..4 |-> applyHomography(calc.h, NumPoint(calc.src[i]))]]
  /\ UNCHANGED machineVars

NextHomography ==
  \/ ComputeHomography
  \/ SolveColumn
  \/ GetWarpedCanvas
  \/ RoundTrip

SpecHomography == InitHomography /\ [][NextHomography]_vars

(***************************************************************************)
(* snapProxyRectToPixelGrid on proxy rects drawn from bounded sets, in the  *)
(* numbers of the floating point model.                                    *)
(***************************************************************************)
\* n / d as a number.
Frac(n, d) == FRound(n, d, 0)

\* The proxy rect after the snap: attrs holds its x, y, scaleX, scaleY (numbers),
\* width, height (integers) and rotation.
snapProxyRectToPixelGrid(attrs) ==
  LET targetWidth == Max2(Abs(FMathRound(FMul(Num(attrs.width), attrs.scaleX))), 1)
      targetHeight == Max2(Abs(FMathRound(FMul(Num(attrs.height), attrs.scaleY))), 1)
  IN [attrs EXCEPT !.x = Num(FMathRound(attrs.x)),
                   !.y = Num(FMathRound(attrs.y)),
                   !.scaleX = FMul(FDiv(Num(targetWidth), Num(attrs.width)),
                                   Num(Sign(attrs.scaleX.m))),
                   !.scaleY = FMul(FDiv(Num(targetHeight), Num(attrs.height)),
                                   Num(Sign(attrs.scaleY.m)))]

\* syncObjectGroupWithProxyRect on these attributes.
syncedGroup(attrs) ==
  [x |-> attrs.x, y |-> attrs.y, scaleX |-> attrs.scaleX, scaleY |-> attrs.scaleY,
   rotation |-> attrs.rotation]

\* The proxy rects a transform gesture ends with: sizes, positions off the pixel
\* grid, and scales that are negative, zero, very small, and ordinary.
GridProxySizes == {1, 2, 3}
GridPositions == {Frac(3, 2), Frac(-5, 4)}
GridScales == {Frac(-2, 1), Frac(-1, 2), Frac(0, 1), Frac(1, 16), Frac(3, 4), Frac(3, 2)}

InitGrid ==
  /\ Idle
  /\ \E w \in GridProxySizes, h \in GridProxySizes, x \in GridPositions,
        sx \in GridScales, sy \in GridScales :
       calc = [fn |-> "input",
               proxyRect |-> [x |-> x, y |-> x, width |-> w, height |-> h,
                              scaleX |-> sx, scaleY |-> sy, rotation |-> 0],
               snapped |-> None, objectGroup |-> None]

\* The transformer's 'transformend' event.
SnapProxyRectToPixelGrid ==
  /\ calc.fn = "input"
  /\ \E snapped \in {snapProxyRectToPixelGrid(calc.proxyRect)} :
       calc' = [calc EXCEPT !.fn = "snapProxyRectToPixelGrid",
                            !.snapped = Some(snapped),
                            !.objectGroup = Some(syncedGroup(snapped))]
  /\ UNCHANGED machineVars

NextGrid == SnapProxyRectToPixelGrid

SpecGrid == InitGrid /\ [][NextGrid]_vars

\* The lock protocol of one transformer with bursts of bbox requests, under the
\* event loop's scheduling: a granted continuation runs, an armed debounce
\* timer fires, the worker answers.  Calls from outside (startTransform,
\* stopTransform, requestRectCalculation) happen or not.
NextLive ==
  \/ RequestRectCalculation("e1")
  \/ RequestRectCalculationBurst("e1")
  \/ RequestRectCalculationResume("e1")
  \/ CalculateRect("e1")
  \/ WorkerResponse("e1")
  \/ StartTransform("e1")
  \/ StartTransformResume("e1")
  \/ StopTransform("e1")

SpecLive ==
  /\ InitLoaded
  /\ [][NextLive]_vars
  /\ WF_vars(RequestRectCalculationResume("e1"))
  /\ WF_vars(StartTransformResume("e1"))
  /\ WF_vars(CalculateRect("e1"))
  /\ WF_vars(WorkerResponse("e1"))

(***************************************************************************)
(* The warp handles' drag handlers on corner coordinates that are numbers  *)
(* of the language.  q holds the fields of the transformer the handlers    *)
(* read and write, the attributes updateWarpBBoxFromCorners gives the      *)
(* proxy rect, and calls, the methods the last handler called, in order.   *)
(* Points are [x, y]; a pointer is null (None) or a point.                 *)
(***************************************************************************)
CornerKeys == {"tl", "tr", "br", "bl"}

\* transform.invert().point(pos) for the layer's absolute transform, which is
\* the stage's: scale stageScale, translation stagePos.
toLayerPoint(pos, stageScale, stagePos) ==
  [x |-> FDiv(Num(pos.x - stagePos.x), Num(stageScale)),
   y |-> FDiv(Num(pos.y - stagePos.y), Num(stageScale))]

copyCorners(c) == [tl |-> c.tl, tr |-> c.tr, br |-> c.br, bl |-> c.bl]

\* Variant of warpBBoxFromCorners without the minimum of 1 for width and height.
warpBBoxFromCornersNoMinimum(q) ==
  IF q.warpCorners = None THEN q
  ELSE LET c == q.warpCorners[1]
           minX == FMin(FMin(c.tl.x, c.tr.x), FMin(c.br.x, c.bl.x))
           maxX == FMax(FMax(c.tl.x, c.tr.x), FMax(c.br.x, c.bl.x))
           minY == FMin(FMin(c.tl.y, c.tr.y), FMin(c.br.y, c.bl.y))
           maxY == FMax(FMax(c.tl.y, c.tr.y), FMax(c.br.y, c.bl.y))
       IN [q EXCEPT !.proxyRect = [x |-> minX, y |-> minY,
                                   width |-> FSub(maxX, minX),
                                   height |-> FSub(maxY, minY),
                                   scaleX |-> Num(1), scaleY |-> Num(1), rotation |-> Num(0)],
                    !.calls = Append(@, "updateWarpBBoxFromCorners")]

warpBBoxFromCorners(q) ==
  IF q.warpCorners = None THEN q
  ELSE LET c == q.warpCorners[1]
           minX == FMin(FMin(c.tl.x, c.tr.x), FMin(c.br.x, c.bl.x))
           maxX == FMax(FMax(c.tl.x, c.tr.x), FMax(c.br.x, c.bl.x))
           minY == FMin(FMin(c.tl.y, c.tr.y), FMin(c.br.y, c.bl.y))
           maxY == FMax(FMax(c.tl.y, c.tr.y), FMax(c.br.y, c.bl.y))
       IN [q EXCEPT !.proxyRect = [x |-> minX, y |-> minY,
                                   width |-> FMax(Num(1), FSub(maxX, minX)),
                                   height |-> FMax(Num(1), FSub(maxY, minY)),
                                   scaleX |-> Num(1), scaleY |-> Num(1), rotation |-> Num(0)],
                    !.calls = Append(@, "updateWarpBBoxFromCorners")]

\* The outline and the drag area get the corners as their points, the anchors
\* their positions, and the preview is redrawn.
updateWarpNodes(q) ==
  IF q.warpCorners = None THEN q
  ELSE [q EXCEPT !.outlinePoints = q.warpCorners,
                 !.calls = Append(@, "updateWarpNodes")]

\* Variant of onWarpAnchorDragMove that moves the next corner along with the
\* dragged one.
onWarpAnchorDragMoveDragsNeighbour(q, key, absPos, gridSize, stageScale, stagePos) ==
  IF q.warpCorners = None \/ ~q.warpSourceRect THEN q
  ELSE IF key \notin CornerKeys THEN q
  ELSE LET snapped == toLayerPoint(snapWarpAnchor(absPos, gridSize, stageScale, stagePos),
                                   stageScale, stagePos)
           next == CASE key = "tl" -> "tr" [] key = "tr" -> "br"
                     [] key = "br" -> "bl" [] OTHER -> "tl"
       IN updateWarpNodes(warpBBoxFromCorners(
            [q EXCEPT !.warpCorners = Some([@[1] EXCEPT ![key] = snapped, ![next] = snapped])]))

\* key: the last part of the dragged anchor's name; absPos: its absolute position.
onWarpAnchorDragMove(q, key, absPos, gridSize, stageScale, stagePos) ==
  IF q.warpCorners = None \/ ~q.warpSourceRect THEN q
  ELSE IF key \notin CornerKeys THEN q
  ELSE LET snapped == toLayerPoint(snapWarpAnchor(absPos, gridSize, stageScale, stagePos),
                                   stageScale, stagePos)
       IN updateWarpNodes(warpBBoxFromCorners(
            [q EXCEPT !.warpCorners = Some([@[1] EXCEPT ![key] = snapped])]))

\* p: getStagePointer()
onWarpDragStart(q, p) ==
  IF q.warpCorners = None THEN q
  ELSE IF p = None THEN q
  ELSE [q EXCEPT !.warpDragStartPointer = p,
                 !.warpDragStartCorners = Some(copyCorners(q.warpCorners[1]))]

addDelta(pt, dx, dy) == [x |-> FAdd(pt.x, dx), y |-> FAdd(pt.y, dy)]

\* Variant of onWarpDragMove that adds the pointer's delta to the corners as
\* they are, not as they were at drag start.
onWarpDragMoveFromCurrent(q, p) ==
  IF q.warpDragStartPointer = None \/ q.warpDragStartCorners = None THEN q
  ELSE IF p = None THEN q
  ELSE IF q.warpCorners = None THEN q
  ELSE LET dx == FSub(p[1].x, q.warpDragStartPointer[1].x)
           dy == FSub(p[1].y, q.warpDragStartPointer[1].y)
           s == q.warpCorners[1]
       IN updateWarpNodes(warpBBoxFromCorners(
            [q EXCEPT !.warpCorners = Some([tl |-> addDelta(s.tl, dx, dy),
                                            tr |-> addDelta(s.tr, dx, dy),
                                            br |-> addDelta(s.br, dx, dy),
                                            bl |-> addDelta(s.bl, dx, dy)])]))

onWarpDragMove(q, p) ==
  IF q.warpDragStartPointer = None \/ q.warpDragStartCorners = None THEN q
  ELSE IF p = None THEN q
  ELSE LET dx == FSub(p[1].x, q.warpDragStartPointer[1].x)
           dy == FSub(p[1].y, q.warpDragStartPointer[1].y)
           s == q.warpDragStartCorners[1]
       IN updateWarpNodes(warpBBoxFromCorners(
            [q EXCEPT !.warpCorners = Some([tl |-> addDelta(s.tl, dx, dy),
                                            tr |-> addDelta(s.tr, dx, dy),
                                            br |-> addDelta(s.br, dx, dy),
                                            bl |-> addDelta(s.bl, dx, dy)])]))

onWarpDragEnd(q) ==
  [q EXCEPT !.warpDragStartPointer = None, !.warpDragStartCorners = None]

\* key: the last part of the dragged side anchor's name.
onWarpSideDragStart(q, key, p) ==
  IF q.warpCorners = None THEN q
  ELSE IF p = None THEN q
  ELSE [q EXCEPT !.warpSideDragKey = Some(key),
                 !.warpSideDragStartPointer = p,
                 !.warpSideDragStartCorners = Some(copyCorners(q.warpCorners[1]))]

\* Variant of onWarpSideDragMove that moves the side from where it is, not from
\* where it was at drag start.
onWarpSideDragMoveFromCurrent(q, p) ==
  IF q.warpSideDragKey = None \/ q.warpSideDragStartPointer = None
       \/ q.warpSideDragStartCorners = None THEN q
  ELSE IF p = None THEN q
  ELSE IF q.warpCorners = None THEN q
  ELSE LET dx == FSub(p[1].x, q.warpSideDragStartPointer[1].x)
           dy == FSub(p[1].y, q.warpSideDragStartPointer[1].y)
           s == q.warpCorners[1]
           key == q.warpSideDragKey[1]
           next == CASE key = "tm" -> [s EXCEPT !.tl = addDelta(s.tl, dx, dy), !.tr = addDelta(s.tr, dx, dy)]
                     [] key = "mr" -> [s EXCEPT !.tr = addDelta(s.tr, dx, dy), !.br = addDelta(s.br, dx, dy)]
                     [] key = "bm" -> [s EXCEPT !.br = addDelta(s.br, dx, dy), !.bl = addDelta(s.bl, dx, dy)]
                     [] key = "ml" -> [s EXCEPT !.tl = addDelta(s.tl, dx, dy), !.bl = addDelta(s.bl, dx, dy)]
                     [] OTHER -> s
       IN updateWarpNodes(warpBBoxFromCorners([q EXCEPT !.warpCorners = Some(next)]))

onWarpSideDragMove(q, p) ==
  IF q.warpSideDragKey = None \/ q.warpSideDragStartPointer = None
       \/ q.warpSideDragStartCorners = None THEN q
  ELSE IF p = None THEN q
  ELSE LET dx == FSub(p[1].x, q.warpSideDragStartPointer[1].x)
           dy == FSub(p[1].y, q.warpSideDragStartPointer[1].y)
           s == q.warpSideDragStartCorners[1]
           key == q.warpSideDragKey[1]
           next == CASE key = "tm" -> [s EXCEPT !.tl = addDelta(s.tl, dx, dy), !.tr = addDelta(s.tr, dx, dy)]
                     [] key = "mr" -> [s EXCEPT !.tr = addDelta(s.tr, dx, dy), !.br = addDelta(s.br, dx, dy)]
                     [] key = "bm" -> [s EXCEPT !.br = addDelta(s.br, dx, dy), !.bl = addDelta(s.bl, dx, dy)]
                     [] key = "ml" -> [s EXCEPT !.tl = addDelta(s.tl, dx, dy), !.bl = addDelta(s.bl, dx, dy)]
                     [] OTHER -> s
       IN updateWarpNodes(warpBBoxFromCorners([q EXCEPT !.warpCorners = Some(next)]))

onWarpSideDragEnd(q) ==
  [q EXCEPT !.warpSideDragKey = None, !.warpSideDragStartPointer = None,
            !.warpSideDragStartCorners = None]

\* The dragmove events of one run.
MaxMoves == 2

QuadPoint(x, y) == [x |-> x, y |-> y]
\* The quads a warp preview starts with or has been dragged to: a square with
\* whole coordinates, a quad that is no rectangle, and a wide one whose right
\* side is at 127.5, where a step of 1 is not a number any more.
QuadInputs ==
  { [tl |-> QuadPoint(Num(0), Num(0)), tr |-> QuadPoint(Num(2), Num(0)),
     br |-> QuadPoint(Num(2), Num(2)), bl |-> QuadPoint(Num(0), Num(2))],
    [tl |-> QuadPoint(Num(1), Num(0)), tr |-> QuadPoint(Num(3), Num(1)),
     br |-> QuadPoint(Num(2), Num(3)), bl |-> QuadPoint(Num(0), Frac(5, 2))],
    [tl |-> QuadPoint(Num(0), Num(0)), tr |-> QuadPoint(Frac(255, 2), Num(0)),
     br |-> QuadPoint(Frac(255, 2), Num(1)), bl |-> QuadPoint(Num(0), Num(1))] }
\* getStagePointer(): null or the pointer's position on the stage.
QuadPointers ==
  { None, Some(QuadPoint(Num(0), Num(0))), Some(QuadPoint(Num(1), Num(0))),
    Some(QuadPoint(Frac(-3, 2), Num(2))) }
\* The absolute positions an anchor is dragged to.
AnchorPositions == {[x |-> 3, y |-> 1], [x |-> -2, y |-> 4]}
\* getPositionGridSize(), the stage's scale and its position.
QuadStages ==
  { [gridSize |-> 1, stageScale |-> 1, stagePos |-> [x |-> 0, y |-> 0]],
    [gridSize |-> 2, stageScale |-> 2, stagePos |-> [x |-> 1, y |-> 0]] }

NoQuad ==
  [warpCorners |-> None, warpSourceRect |-> FALSE,
   warpDragStartPointer |-> None, warpDragStartCorners |-> None,
   warpSideDragKey |-> None, warpSideDragStartPointer |-> None,
   warpSideDragStartCorners |-> None,
   proxyRect |-> [x |-> Num(0), y |-> Num(0), width |-> Num(2), height |-> Num(2),
                  scaleX |-> Num(1), scaleY |-> Num(1), rotation |-> Num(0)],
   outlinePoints |-> None, calls |-> <<>>]

\* calc: fn, the last handler; q, the fields afterwards; before, the fields
\* when the handler was entered; key and pointer, what the event came with;
\* dragging, the node a drag is in progress on; moves, the dragmove events so far.
QuadCalc(fn, q, before, key, pointer, dragging, moves, stage) ==
  [fn |-> fn, q |-> q, before |-> before, key |-> key, pointer |-> pointer,
   dragging |-> dragging, moves |-> moves, stage |-> stage]

\* A warp preview as prepareWarpPreview leaves it, or none.
InitQuad ==
  /\ Idle
  /\ \E stage \in QuadStages :
       \/ \E c \in QuadInputs :
            calc = QuadCalc("input",
                            [NoQuad EXCEPT !.warpCorners = Some(c), !.warpSourceRect = TRUE],
                            NoQuad, "none", None, "none", 0, stage)
       \/ calc = QuadCalc("input", NoQuad, NoQuad, "none", None, "none", 0, stage)

\* The fields as a handler finds them: the record of calls starts empty.
Entering(q) == [q EXCEPT !.calls = <<>>]

\* A dragmove of a corner anchor.  A drag of an anchor needs no dragstart
\* handler: the one registered does nothing.
QuadAnchorDragMove ==
  /\ calc.dragging = "none"
  /\ calc.moves < MaxMoves
  /\ \E key \in CornerKeys, absPos \in AnchorPositions :
       \E q \in {onWarpAnchorDragMove(Entering(calc.q), key, absPos, calc.stage.gridSize,
                                      calc.stage.stageScale, calc.stage.stagePos)} :
         calc' = QuadCalc("onWarpAnchorDragMove", q, Entering(calc.q), key,
                          Some(toLayerPoint(snapWarpAnchor(absPos, calc.stage.gridSize,
                                                           calc.stage.stageScale,
                                                           calc.stage.stagePos),
                                            calc.stage.stageScale, calc.stage.stagePos)),
                          "none", calc.moves + 1, calc.stage)
  /\ UNCHANGED machineVars

QuadDragStart ==
  /\ calc.dragging = "none"
  /\ calc.moves < MaxMoves
  /\ \E p \in QuadPointers :
       calc' = QuadCalc("onWarpDragStart", onWarpDragStart(Entering(calc.q), p),
                        Entering(calc.q), "none", p, "area", calc.moves, calc.stage)
  /\ UNCHANGED machineVars

QuadDragMove ==
  /\ calc.dragging = "area"
  /\ calc.moves < MaxMoves
  /\ \E p \in QuadPointers :
       \E q \in {onWarpDragMove(Entering(calc.q), p)} :
         calc' = QuadCalc("onWarpDragMove", q, Entering(calc.q), "none", p, "area",
                          calc.moves + 1, calc.stage)
  /\ UNCHANGED machineVars

QuadDragEnd ==
  /\ calc.dragging = "area"
  /\ calc' = QuadCalc("onWarpDragEnd", onWarpDragEnd(Entering(calc.q)),
                      Entering(calc.q), "none", None, "none", calc.moves, calc.stage)
  /\ UNCHANGED machineVars

QuadSideDragStart ==
  /\ calc.dragging = "none"
  /\ calc.moves < MaxMoves
  /\ \E key \in WarpSides, p \in QuadPointers :
       calc' = QuadCalc("onWarpSideDragStart",
                        onWarpSideDragStart(Entering(calc.q), key, p),
                        Entering(calc.q), key, p, "side", calc.moves, calc.stage)
  /\ UNCHANGED machineVars

QuadSideDragMove ==
  /\ calc.dragging = "side"
  /\ calc.moves < MaxMoves
  /\ \E p \in QuadPointers :
       \E q \in {onWarpSideDragMove(Entering(calc.q), p)} :
         calc' = QuadCalc("onWarpSideDragMove", q, Entering(calc.q), "none", p, "side",
                          calc.moves + 1, calc.stage)
  /\ UNCHANGED machineVars

QuadSideDragEnd ==
  /\ calc.dragging = "side"
  /\ calc' = QuadCalc("onWarpSideDragEnd", onWarpSideDragEnd(Entering(calc.q)),
                      Entering(calc.q), "none", None, "none", calc.moves, calc.stage)
  /\ UNCHANGED machineVars

NextQuad ==
  \/ QuadAnchorDragMove
  \/ QuadDragStart
  \/ QuadDragMove
  \/ QuadDragEnd
  \/ QuadSideDragStart
  \/ QuadSideDragMove
  \/ QuadSideDragEnd

SpecQuad == InitQuad /\ [][NextQuad]_vars

(***************************************************************************)
(* The transformer's boundBoxFunc.  A box is [x, y, width, height,         *)
(* rotation], the rotation a number of the language, in radians.           *)
(***************************************************************************)
\* Math.PI / 4.  The mantissa of the language's Math.PI ends in three zero
\* bits, so that its small multiples are numbers; so does this one's.
PiOver4 == [m |-> 200, e |-> -8]

\* a % b for b # 0: the remainder of the division that truncates, which is a
\* number whatever a and b are; its sign is the sign of a.
FRemainder(a, b) ==
  LET lo == Min2(a.e, b.e)
  IN FRound(Rem(a.m * Pow2(a.e - lo), Abs(b.m) * Pow2(b.e - lo)), 1, lo)

\* Variant of boxBoundFunc that keeps the previous box whenever shift is held
\* on the rotater.
boxBoundFuncNeverTurns(oldBoundBox, newBoundBox, activeAnchor, shiftKey) ==
  IF activeAnchor # "rotater" THEN newBoundBox
  ELSE IF shiftKey THEN oldBoundBox
  ELSE newBoundBox

\* activeAnchor: transformer.getActiveAnchor(); shiftKey: $shiftKey.get()
boxBoundFunc(oldBoundBox, newBoundBox, activeAnchor, shiftKey) ==
  IF activeAnchor # "rotater" THEN newBoundBox
  ELSE IF shiftKey /\ DLess(Num(0), DAbs(FRemainder(newBoundBox.rotation, PiOver4)))
       THEN oldBoundBox
       ELSE newBoundBox

\* The motion events of one gesture.
MaxEvents == 2

\* The rotations a motion proposes: multiples of Math.PI / 4 of both signs,
\* numbers next to a multiple, and numbers far from any.
ProposedRotations ==
  { FMul(Num(k), PiOver4) : k \in {-3, -1, 0, 1, 2, 8} }
    \cup { [m |-> 201, e |-> -8], [m |-> 199, e |-> -7], Frac(1, 2), Frac(-3, 1) }
\* Where a motion puts the box.
ProposedOrigins == {0, 1}

RotateBox(x, rotation) == [x |-> x, y |-> 0, width |-> 2, height |-> 2, rotation |-> rotation]

\* calc: box, the transformer's bounding box; proposed, what the last motion
\* proposed; old, the box before it; events, the motions so far.
InitRotate ==
  /\ Idle
  /\ \E anchor \in ActiveAnchors :
       calc = [fn |-> "input", box |-> RotateBox(0, Num(0)), old |-> RotateBox(0, Num(0)),
               proposed |-> RotateBox(0, Num(0)), activeAnchor |-> anchor, shiftKey |-> FALSE,
               events |-> 0]

\* A motion of the pointer during a transform: the konva transformer proposes
\* a box and takes what boundBoxFunc returns.
BoxBound ==
  /\ calc.events < MaxEvents
  /\ \E x \in ProposedOrigins, r \in ProposedRotations, shift \in BOOLEAN :
       calc' = [calc EXCEPT !.fn = "boxBoundFunc",
                            !.old = calc.box,
                            !.proposed = RotateBox(x, r),
                            !.shiftKey = shift,
                            !.box = boxBoundFunc(calc.box, RotateBox(x, r),
                                                 calc.activeAnchor, shift),
                            !.events = @ + 1]
  /\ UNCHANGED machineVars

NextRotate == BoxBound

SpecRotate == InitRotate /\ [][NextRotate]_vars

(***************************************************************************)
(* Properties.                                                             *)
(***************************************************************************)
\* The session of e still holds e's transformMutex.
SessionHoldsLock(e) == mutex[e].locked /\ mutex[e].holder = "session"

\* C1: under any interleaving of startTransform, stopTransform and
\* requestRectCalculation on two entities, at most one transformer has
\* $isTransforming = true.
C1_AtMostOneTransforming ==
  Cardinality({e \in Entities : tr[e].isTransforming}) <= 1

\* C2: for one transformer, $isTransforming and $isPendingRectCalculation are
\* never both true.
C2_NeverTransformingAndPending ==
  ~(tr["e1"].isTransforming /\ tr["e1"].isPendingRectCalculation)

\* C3: the lock is shared by all entities: while one entity's session is active
\* no other entity's transformer has $isPendingRectCalculation = true (and so no
\* startTransform completes beside another entity's pending recomputation).
C3_NoPendingBesideAnotherSession ==
  \A e, f \in Entities :
    e # f => ~(tr[e].isTransforming /\ tr[f].isPendingRectCalculation)

\* C4: a startTransform called while $transformingAdapter is non-null ends in the
\* assertion before it asks for the lock: the transformers (with $isTransforming,
\* $silentTransform, $transformMode and the warp state), the mutexes, the queued
\* continuations and $transformingAdapter are the same after the call as before.
C4_RejectedStartChangesNothing ==
  [][(transformingAdapter # Null /\ lastOp'.op = "startTransform")
       => /\ lastOp'.outcome = "assert"
          /\ tr' = tr
          /\ mutex' = mutex
          /\ microtasks' = microtasks
          /\ transformingAdapter' = transformingAdapter]_vars

\* e2's startTransform has just been rejected during the session of e1.
C4_Witness ==
  /\ lastOp.op = "startTransform"
  /\ lastOp.outcome = "assert"
  /\ lastOp.ent = "e2"
  /\ transformingAdapter = "e1"
  /\ tr["e1"].isTransforming
  /\ SessionHoldsLock("e1")

\* C5: after stopTransform, called to cancel or from applyTransform, the proxy
\* rect and the outline rect have scale 1 and rotation 0, $isTransforming and
\* $isProcessing are false, $transformingAdapter is null and the session does
\* not hold the lock.
C5_StopRestoresIdentity ==
  lastOp.op \in {"stopTransform", "applyTransformDone"} =>
    LET s == tr[lastOp.ent]
    IN /\ s.proxyRect.scaleX = 1 /\ s.proxyRect.scaleY = 1 /\ s.proxyRect.rotation = 0
       /\ s.outlineRect.scaleX = 1 /\ s.outlineRect.scaleY = 1 /\ s.outlineRect.rotation = 0
       /\ ~s.isTransforming
       /\ ~s.isProcessing
       /\ transformingAdapter = Null
       /\ ~SessionHoldsLock(lastOp.ent)

\* A session whose proxy rect had been resized and rotated has just been cancelled.
C5_Witness ==
  /\ lastOp.op = "stopTransform"
  /\ lastOp.scaled

\* C6: when the rasterization of applyTransform rejects, in affine or in warp
\* mode, the error toast is shown and the session still ends: $isTransforming
\* and $isProcessing are false, $transformingAdapter is null and the session
\* does not hold the lock.
C6_FailedApplyEndsSession ==
  (lastOp.op = "applyTransformDone" /\ lastOp.outcome = "failed") =>
    /\ lastOp.toast
    /\ ~tr[lastOp.ent].isTransforming
    /\ ~tr[lastOp.ent].isProcessing
    /\ transformingAdapter = Null
    /\ ~SessionHoldsLock(lastOp.ent)

\* An applyTransform in warp mode has just returned after a rejected rasterization.
C6_Witness ==
  /\ lastOp.op = "applyTransformDone"
  /\ lastOp.outcome = "failed"
  /\ lastOp.at = "warpRasterize"

\* C7: a pass that has set $isPendingRectCalculation goes on to clear it and to
\* release the lock on every exit path of calculateRect.  As a safety property:
\* while the flag is set, the step of the pass that will clear it is still to
\* come (the debounce timer is armed or the worker has a request to answer).
C7_PendingPassStillRunning ==
  \A e \in Entities :
    tr[e].isPendingRectCalculation => (calcTimer[e] \/ workerReqs[e] > 0)

\* C8: whenever $isPendingRectCalculation is true, $interactionMode is 'off' and
\* $isDragEnabled and $isTransformEnabled are false.
C8_PendingMeansNoInteraction ==
  \A e \in Entities :
    tr[e].isPendingRectCalculation =>
      /\ tr[e].interactionMode = "off"
      /\ ~tr[e].isDragEnabled
      /\ ~tr[e].isTransformEnabled

\* A pending recomputation of a selected, unlocked entity with a non-empty pixel
\* rect under the move tool: without the recomputation it could be dragged.
C8_Witness ==
  /\ tr["e1"].isPendingRectCalculation
  /\ tr["e1"].pixelRect.width # 0
  /\ selected = "e1"
  /\ tool = "move"
  /\ ~isLocked["e1"]
  /\ lastOp.op = "syncInteractionState"

\* C9: syncInteractionState sets $interactionMode by the first matching rule of:
\* staging -> off; segmenting -> off; filtering -> off; another entity is
\* transforming -> off; bbox pending or empty pixel rect -> off; not selected ->
\* off; empty -> off; locked -> off; not transforming and tool = move -> drag;
\* transforming and tool = view -> off; transforming -> all; otherwise off.
C9_FirstMatchingRule ==
  lastOp.op = "syncInteractionState" =>
    \A e \in Entities :
      tr[e].interactionMode =
        IF isStaging THEN "off"
        ELSE IF isSegmenting[e] THEN "off"
        ELSE IF isFiltering[e] THEN "off"
        ELSE IF transformingAdapter # Null /\ ~tr[e].isTransforming THEN "off"
        ELSE IF tr[e].isPendingRectCalculation THEN "off"
        ELSE IF tr[e].pixelRect.width = 0 \/ tr[e].pixelRect.height = 0 THEN "off"
        ELSE IF selected # e THEN "off"
        ELSE IF isEmpty[e] THEN "off"
        ELSE IF isLocked[e] THEN "off"
        ELSE IF ~tr[e].isTransforming /\ tool = "move" THEN "drag"
        ELSE IF tr[e].isTransforming /\ tool = "view" THEN "off"
        ELSE IF tr[e].isTransforming THEN "all"
        ELSE "off"

\* The sync of a transforming, selected, unlocked entity under the brush tool:
\* the last rule but one applies.
C9_Witness ==
  /\ lastOp.op = "syncInteractionState"
  /\ tr["e1"].isTransforming
  /\ tr["e1"].interactionMode = "all"
  /\ tool = "brush"

\* C10: resetEntity is never called for an entity between its startTransform
\* being granted the lock and its stopTransform releasing it, stopTransform's
\* own resetTransform -> updateBbox step included.
C10_NoResetInFlight ==
  lastOp.reset # "inFlight"

\* C14: the pan-compensated grid snap is idempotent: snapWarpAnchor, and
\* anchorDragBoundFunc when not rotating, applied to a position that is already
\* the result of that snap returns the same position.
C14_SnapIdempotent ==
  (calc.fn \in {"snapWarpAnchor", "anchorDragBoundFunc"} /\ calc.count >= 2)
    => calc.pos = calc.prev

\* C15: after every completed bounding-box recomputation (client-rect path,
\* worker extents, or worker null with the rounded fallback) the pixel rect is
\* no wider and no higher than the node rect, fractional node rects included.
C15_PixelRectWithinNodeRect ==
  calc.fn \in {"clientRect", "workerExtents", "workerNull"} =>
    /\ calc.pixelRect.width <= calc.nodeRect.width
    /\ calc.pixelRect.height <= calc.nodeRect.height

\* C16: when the entity has objects that need a pixel bbox and the worker finds
\* no pixel with alpha above 0, the completed recomputation leaves $pixelRect
\* and $nodeRect both {0,0,0,0}.
C16_TransparentContentGivesEmptyRects ==
  (lastOp.op = "calculateRect" /\ lastOp.outcome = "workerNull") =>
    /\ tr[lastOp.ent].pixelRect = getEmptyRect
    /\ tr[lastOp.ent].nodeRect = getEmptyRect

\* v is n rounded to a whole pixel as Math.round does it: the nearest one, a half
\* going up.
IsRounded(v, n) ==
  /\ v % SubPixel = 0
  /\ 2 * (v - n) <= SubPixel
  /\ 2 * (n - v) < SubPixel

\* C17: when the worker answers null, $nodeRect is the client rect of the object
\* group and $pixelRect is that rect with x, y, width and height each rounded to
\* the nearest integer; the pixel rect is then not zero-sized whenever the node
\* rect is at least one pixel wide and high.
C17_NullWorkerFallsBackToRoundedRect ==
  calc.fn = "workerNull" =>
    /\ calc.nodeRect = calc.rect
    /\ IsRounded(calc.pixelRect.x, calc.rect.x)
    /\ IsRounded(calc.pixelRect.y, calc.rect.y)
    /\ IsRounded(calc.pixelRect.width, calc.rect.width)
    /\ IsRounded(calc.pixelRect.height, calc.rect.height)
    /\ (calc.nodeRect.width >= SubPixel /\ calc.nodeRect.height >= SubPixel)
         => (calc.pixelRect.width > 0 /\ calc.pixelRect.height > 0)

\* The fallback ran on a client rect of fractional position and size, at least
\* one pixel wide and high.
C17_Witness ==
  /\ calc.fn = "workerNull"
  /\ calc.rect.x % SubPixel # 0
  /\ calc.rect.width % SubPixel # 0
  /\ calc.rect.height % SubPixel # 0
  /\ calc.rect.width >= SubPixel
  /\ calc.pixelRect.width > 0

\* The rectangle of the fitted proxy rect spans, on the x axis, from attrs.x to
\* attrs.x + width * scaleX, and likewise on the y axis; the values are exact.
FittedStartX == calc.attrs.x
FittedEndX == DAdd(calc.attrs.x, DMul(Dy(calc.width, 0), calc.attrs.scaleX))
FittedStartY == calc.attrs.y
FittedEndY == DAdd(calc.attrs.y, DMul(Dy(calc.height, 0), calc.attrs.scaleY))
TargetStartX == Dy(calc.rect.x, 0)
TargetEndX == Dy(calc.rect.x + calc.rect.width, 0)
TargetStartY == Dy(calc.rect.y, 0)
TargetEndY == Dy(calc.rect.y + calc.rect.height, 0)

\* C12: for every proxy rect and target rect of positive size and every grid
\* size, the rectangle fitToBboxContain leaves (x, y, width * scale,
\* height * scale) lies inside the target rectangle on both axes, with rotation
\* 0 and scaleX = scaleY.
C12_ContainStaysInside ==
  calc.fn = "fitToBboxContain" =>
    /\ DLeq(TargetStartX, FittedStartX)
    /\ DLeq(FittedEndX, TargetEndX)
    /\ DLeq(TargetStartY, FittedStartY)
    /\ DLeq(FittedEndY, TargetEndY)
    /\ calc.attrs.rotation = 0
    /\ calc.attrs.scaleX = calc.attrs.scaleY

\* C13: for every proxy rect and target rect of positive size and every grid
\* size, the rectangle fitToBboxCover leaves covers the whole extent of the
\* target rectangle on at least one axis.
C13_CoverCoversOneAxis ==
  calc.fn = "fitToBboxCover" =>
    \/ DLeq(FittedStartX, TargetStartX) /\ DLeq(TargetEndX, FittedEndX)
    \/ DLeq(FittedStartY, TargetStartY) /\ DLeq(TargetEndY, FittedEndY)

\* C11: a fit operation (fitToBboxFill, fitToBboxContain, fitToBboxCover) invoked
\* while $isTransformEnabled is false is a no-op: the step leaves the proxy rect
\* (x, y, scaleX, scaleY, rotation among its attributes) and the object group's
\* attributes as they were.
C11_DisabledFitIsNoOp ==
  [][(lastOp'.op \in FitOps /\ ~tr[lastOp'.ent].isTransformEnabled)
       => /\ tr'[lastOp'.ent].proxyRect = tr[lastOp'.ent].proxyRect
          /\ tr'[lastOp'.ent].objectGroup = tr[lastOp'.ent].objectGroup]_vars

\* A fit operation was rejected during a session in warp mode, whose proxy rect
\* a fit would have moved.
C11_Witness ==
  /\ lastOp.op \in FitOps
  /\ lastOp.outcome = "rejected"
  /\ tr["e1"].isTransforming
  /\ tr["e1"].transformMode = "warp"
  /\ ~tr["e1"].isTransformEnabled
  /\ \E rect \in StoreBboxes :
       applyFit(tr["e1"], fitFill(tr["e1"].proxyRect.width, tr["e1"].proxyRect.height, rect)).proxyRect
         # tr["e1"].proxyRect

\* C20: when a session that switched to warp mode switches back to affine mode,
\* whatever warp corner, side and whole-quad drags came in between, the proxy
\* rect's x, y, width, height, scaleX, scaleY and rotation and the object group's
\* x, y, scaleX, scaleY and rotation are those of immediately before the switch
\* to warp, and the warp corners and the warp source are cleared.
C20_AffineRestoresSnapshot ==
  \A e \in Entities :
    (lastOp.op = "setTransformMode" /\ lastOp.ent = e /\ lastOp.outcome = "affine")
      => /\ preWarp[e] # None
         /\ tr[e].proxyRect = preWarp[e][1].proxyRect
         /\ groupPlacement(tr[e].objectGroup) = groupPlacement(preWarp[e][1].objectGroup)
         /\ tr[e].warpCorners = None
         /\ ~tr[e].warpSourceCanvas

\* A session has just left warp mode after drags that had changed the proxy
\* rect, and the rect of before the switch to warp was scaled and rotated.
C20_Witness ==
  /\ lastOp.op = "setTransformMode"
  /\ lastOp.ent = "e1"
  /\ lastOp.outcome = "affine"
  /\ lastOp.moved
  /\ tr["e1"].isTransforming
  /\ preWarp["e1"] # None
  /\ preWarp["e1"][1].proxyRect.scaleX # 1
  /\ preWarp["e1"][1].proxyRect.rotation # 0

\* C18: whenever the homography of the warp corners is degenerate (the linear
\* solve met a zero pivot, or a coefficient is not finite), getWarpedCanvas has
\* taken the fallback that draws the whole source stretched over the canvas, and
\* it never returns a canvas on which nothing was drawn.
C18_DegenerateHomographyFallsBack ==
  calc.fn = "drawn"
    => /\ (calc.zeroPivot \/ ~isValidHomography(calc.h)) => calc.out.fallback
       /\ calc.out.fallback \/ calc.out.painted

\* Three points with integer coordinates on one line.
Collinear(a, b, c) == (b.x - a.x) * (c.y - a.y) = (c.x - a.x) * (b.y - a.y)

\* Four points, no three of them on one line.
NonDegenerate(q) ==
  \A i, j, k \in 1..4 : (i < j /\ j < k) => ~Collinear(q[i], q[j], q[k])

\* What a coordinate of a mapped point may differ from the destination's by: 64
\* units in the last place of a number between 1/2 and 1.
Tolerance == Dy(1, 6 - Precision)

Near(a, i) == DLeq(DAbs(DSub(a, Num(i))), Tolerance)

\* C19 as stated: for every non-degenerate pair of source and destination
\* quadrilaterals, applyHomography(computeHomography(src, dst), src[i]) equals
\* dst[i] for each i.
C19_RoundTripIsExact ==
  (calc.fn = "roundTrip" /\ NonDegenerate(calc.src) /\ NonDegenerate(calc.dst))
    => \A i \in 1..4 : /\ DCompare(calc.mapped[i].x, Num(calc.dst[i].x)) = 0
                       /\ DCompare(calc.mapped[i].y, Num(calc.dst[i].y)) = 0

\* C19, amended: for every non-degenerate pair of source and destination
\* quadrilaterals, each coordinate of
\* applyHomography(computeHomography(src, dst), src[i]) is within the tolerance of
\* rounding of that of dst[i], for each i.
C19_RoundTripWithinTolerance ==
  (calc.fn = "roundTrip" /\ NonDegenerate(calc.src) /\ NonDegenerate(calc.dst))
    => /\ ~calc.zeroPivot
       /\ \A i \in 1..4 : /\ Near(calc.mapped[i].x, calc.dst[i].x)
                          /\ Near(calc.mapped[i].y, calc.dst[i].y)

\* A round trip through a homography with a perspective part, whose result is
\* not exactly the destination.
C19_Witness ==
  /\ calc.fn = "roundTrip"
  /\ NonDegenerate(calc.src)
  /\ NonDegenerate(calc.dst)
  /\ calc.h[7].m # 0
  /\ \E i \in 1..4 : DCompare(calc.mapped[i].x, Num(calc.dst[i].x)) # 0

\* The proxy rect and the object group of s are where the store's position and
\* the pixel rect put them, unscaled and unrotated.
AtRest(s) ==
  /\ s.proxyRect = [x |-> s.position.x + s.pixelRect.x, y |-> s.position.y + s.pixelRect.y,
                    width |-> s.pixelRect.width, height |-> s.pixelRect.height,
                    scaleX |-> 1, scaleY |-> 1, rotation |-> 0]
  /\ s.objectGroup.x = s.position.x + s.pixelRect.x
  /\ s.objectGroup.y = s.position.y + s.pixelRect.y
  /\ s.objectGroup.scaleX = 1
  /\ s.objectGroup.scaleY = 1
  /\ s.objectGroup.rotation = 0

C22_BurstRunsBodyOnce == (watch.on /\ watch.calls > 1) => watch.ran <= 1

\* The number a is a whole number.
IsWhole(a) == a.e >= 0 \/ a.m % Pow2(-a.e) = 0

\* The size |size * scale| the proxy rect shows, as the program computes it.
EffectiveSize(size, scale) == DAbs(FMul(Num(size), scale))

\* What the snap is to make of size * scale: max(|round(size * scale)|, 1).
SnapTarget(size, scale) == Max2(Abs(FMathRound(FMul(Num(size), scale))), 1)

\* C23: after snapProxyRectToPixelGrid, for every width, height, scaleX and
\* scaleY (negative, zero and very small scales too), the proxy position is
\* integral, the effective sizes are the integers max(|round(size * scale)|, 1),
\* which are >= 1, each scale has the sign it had before, and the object group
\* has the proxy rect's x, y, scale and rotation.
C23_SnappedToPixelGrid ==
  calc.fn = "snapProxyRectToPixelGrid" =>
    LET in == calc.proxyRect
        out == calc.snapped[1]
    IN /\ IsWhole(out.x) /\ IsWhole(out.y)
       /\ EffectiveSize(out.width, out.scaleX) = Num(SnapTarget(in.width, in.scaleX))
       /\ EffectiveSize(out.height, out.scaleY) = Num(SnapTarget(in.height, in.scaleY))
       /\ SnapTarget(in.width, in.scaleX) >= 1
       /\ SnapTarget(in.height, in.scaleY) >= 1
       /\ Sign(out.scaleX.m) = Sign(in.scaleX.m)
       /\ Sign(out.scaleY.m) = Sign(in.scaleY.m)
       /\ calc.objectGroup[1] = syncedGroup(out)

\* An applyTransform of e in warp mode is between its guard and its stopTransform.
WarpApplyRunning(e) ==
  /\ applyTasks[e] # <<>>
  /\ \E i \in 1..Len(applyTasks[e]) :
       applyTasks[e][i] \in {"warpRasterize", "warpDone", "warpRejected"}

\* C24: a warp-mode applyTransform first sets the interaction mode to 'off' and
\* stops the warp handles listening, then rasterizes, waits, syncs the objects
\* and requests the bbox, and only then runs stopTransform; between the first
\* step and stopTransform no warp drag handler changes the warp corners.
C24_WarpApplyOrder ==
  [][\A e \in Entities :
       /\ (~WarpApplyRunning(e) /\ WarpApplyRunning(e)')
            => (tr'[e].interactionMode = "off" /\ ~tr'[e].warpListening)
       /\ (WarpApplyRunning(e) /\ lastOp'.op = "applyTransformDone" /\ lastOp'.ent = e
             /\ lastOp'.outcome = "ok")
            => (lastOp'.at = "warpDone" /\ ~WarpApplyRunning(e)' /\ ~tr'[e].isTransforming)
       /\ (WarpApplyRunning(e) /\ lastOp'.op = "warpDrag" /\ lastOp'.ent = e)
            => tr'[e].warpCorners = tr[e].warpCorners]_vars

C26_OnePassPerApply ==
  (watch.on /\ watch.calls = 1) =>
    /\ watch.entered <= 1
    /\ watch.ran <= 1
    /\ \A e \in Entities :
         (lastOp.op = "requestRectCalculation" /\ lastOp.ent = e) =>
           (~tr[e].isTransforming /\ applyTasks[e] = <<>>)

\* A stopTransform of e runs in this step: a call from outside, or the one at the
\* end of applyTransform.
StopRuns(e) == lastOp'.op \in {"stopTransform", "applyTransformDone"} /\ lastOp'.ent = e

\* C27: the lock is released only by the operation that holds it: a
\* stopTransform that runs when no session of the transformer holds the lock (no
\* session active, or the session already stopped once) leaves a lock held by a
\* bbox recomputation or by a waiter that was granted it as it is.
C27_StopReleasesOnlyItsOwnLock ==
  [][\A e \in Entities :
       (StopRuns(e) /\ ~SessionHoldsLock(e)) =>
         /\ mutex[e].locked => (mutex'[e].locked /\ mutex'[e].holder = mutex[e].holder)
         /\ (~mutex[e].locked /\ lastOp'.op = "applyTransformDone")
              => (mutex'[e].locked /\ mutex'[e].holder = "rect")]_vars

\* C28: whenever $interactionMode is 'all', or $isTransformEnabled is true, or
\* the warp handles are listening, the transformer's session is active and holds
\* the transformer's lock.
C28_InteractionOnlyInSession ==
  \A e \in Entities :
    (tr[e].interactionMode = "all" \/ tr[e].isTransformEnabled \/ tr[e].warpListening) =>
      (tr[e].isTransforming /\ mutex[e].locked)

C30_FlagsAgreeWithMode ==
  \A e \in Entities :
    /\ tr[e].isDragEnabled <=> (tr[e].interactionMode \in {"all", "drag"})
    /\ tr[e].isTransformEnabled <=> (tr[e].interactionMode = "all")

\* C31: warpCorners is non-null only in a session in warp mode; a dragmove of
\* the whole quad or of a side that arrives when no session is active (its drag
\* was in progress when the session ended) neither sets warpCorners nor changes
\* the proxy rect.
C31_WarpStateOnlyInWarpSession ==
  [][\A e \in Entities :
       /\ tr'[e].warpCorners # None
            => (tr'[e].isTransforming /\ tr'[e].transformMode = "warp")
       /\ (lastOp'.op = "warpDrag" /\ lastOp'.ent = e /\ ~tr[e].isTransforming)
            => (tr'[e].warpCorners = None /\ tr'[e].proxyRect = tr[e].proxyRect)]_vars


\* A startTransform call of e waits in the queue of e's lock while a bbox pass holds it.
StartWaitsForRect(e) ==
  /\ mutex[e].locked
  /\ mutex[e].holder = "rect"
  /\ \E i \in 1..Len(mutex[e].queue) : mutex[e].queue[i].kind = "start"

\* The pass that holds e's lock has ended without releasing it: its continuation
\* has run, no timer is armed and no worker request is out.
RectPassDead(e) ==
  /\ mutex[e].locked
  /\ mutex[e].holder = "rect"
  /\ ~calcTimer[e]
  /\ workerReqs[e] = 0
  /\ \A i \in 1..Len(microtasks) : microtasks[i].ent # e

\* C32: a startTransform call that waits for the lock behind a pending bbox
\* pass becomes the active session (unless the pass ends without completing),
\* and every step hands the lock to at most one waiter, the first in the queue.
C32_WaitingStartBecomesSession ==
  /\ \A e \in {"e1"} :
       StartWaitsForRect(e)
         ~> ((tr[e].isTransforming /\ transformingAdapter = e) \/ RectPassDead(e))
  /\ [][\A e \in Entities :
          /\ Len(microtasks') <= Len(microtasks) + 1
          /\ Len(mutex'[e].queue) < Len(mutex[e].queue)
               => /\ mutex'[e].queue = Tail(mutex[e].queue)
                  /\ microtasks' = Append(microtasks, Head(mutex[e].queue))]_vars

\* A bbox pass has completed and its release has granted the lock to the
\* startTransform call that waited.
C32_Witness ==
  /\ lastOp.op = "calculateRect"
  /\ lastOp.outcome # "threw"
  /\ microtasks # <<>>
  /\ Head(microtasks).kind = "start"


\* C33: when startTransform has completed, the transform mode is affine, there
\* is no warp state (corners, source canvas and rect) and the warp handles do
\* not listen, whatever the mode was before.
C33_SessionStartsAffine ==
  [][\A e \in Entities :
       (lastOp'.op = "startTransformResumed" /\ lastOp'.ent = e)
         => /\ tr'[e].isTransforming
            /\ tr'[e].transformMode = "affine"
            /\ tr'[e].warpCorners = None
            /\ ~tr'[e].warpSourceCanvas
            /\ ~tr'[e].warpListening]_vars

\* A session has just started on an entity whose previous session ended in
\* warp mode (its snapshot of the affine placement is still there).
C33_Witness ==
  /\ lastOp.op = "startTransformResumed"
  /\ tr[lastOp.ent].affineSnapshot # None
  /\ tr[lastOp.ent].transformMode = "affine"


\* C34: an applyTransform call made while $isTransforming is false changes
\* nothing: the transformer (with $isProcessing and the interaction mode), the
\* lock, the pending rasterizations and bbox passes and the transforming
\* adapter are as they were.
C34_ApplyWithoutSessionIsNoOp ==
  [][\A e \in Entities :
       (ApplyTransform(e) /\ ~tr[e].isTransforming)
         => UNCHANGED <<tr, mutex, microtasks, applyTasks, calcTimer, workerReqs,
                        transformingAdapter>>]_vars

\* applyTransform has been called on an entity with no session while a bbox
\* pass holds the entity's lock.
C34_Witness ==
  /\ lastOp.op = "applyTransform"
  /\ lastOp.outcome = "notTransforming"
  /\ ~tr[lastOp.ent].isTransforming
  /\ mutex[lastOp.ent].locked


\* C35: onDragEnd with no session gives the store the position
\* (proxyRect.x - pixelRect.x, proxyRect.y - pixelRect.y), and the proxy origin
\* it reads is the one the preceding onDragMove snapped to the position grid;
\* onDragEnd during a session commits nothing.
C35_DragEndCommitsSnappedPosition ==
  [][\A e \in Entities :
       (lastOp'.op = "onDragEnd" /\ lastOp'.ent = e)
         => IF tr[e].isTransforming
            THEN tr'[e] = tr[e]
            ELSE /\ tr'[e].position = [x |-> tr[e].proxyRect.x - tr[e].pixelRect.x,
                                       y |-> tr[e].proxyRect.y - tr[e].pixelRect.y]
                 /\ (lastOp.op = "onDragMove" /\ lastOp.ent = e)
                      => /\ tr[e].proxyRect.x % lastOp.grid = 0
                         /\ tr[e].proxyRect.y % lastOp.grid = 0]_vars

\* A drag with no session has ended and its position, snapped to a grid of 2
\* from a pointer position off the grid, is in the store.
C35_Witness ==
  /\ lastOp.op = "onDragEnd"
  /\ lastOp.outcome = "committed"
  /\ tr[lastOp.ent].proxyRect.x = 2
  /\ tr[lastOp.ent].position.x = 2 - tr[lastOp.ent].pixelRect.x


\* C36: a dragmove of the corner anchor k sets warpCorners[k] to the layer
\* point of the anchor's snapped absolute position and leaves the other three
\* corners as they were; without warp corners or a warp source rect the event
\* changes nothing.
C36_CornerDragMovesOneCorner ==
  calc.fn = "onWarpAnchorDragMove"
    => IF calc.before.warpCorners = None \/ ~calc.before.warpSourceRect
       THEN calc.q = calc.before
       ELSE /\ calc.q.warpCorners # None
            /\ calc.q.warpCorners[1][calc.key] = calc.pointer[1]
            /\ \A k \in CornerKeys \ {calc.key} :
                 calc.q.warpCorners[1][k] = calc.before.warpCorners[1][k]

\* A corner has been dragged to a position the grid of 2 snapped, and it moved.
C36_Witness ==
  /\ calc.fn = "onWarpAnchorDragMove"
  /\ calc.before.warpCorners # None
  /\ calc.stage.gridSize = 2
  /\ calc.q.warpCorners[1][calc.key] # calc.before.warpCorners[1][calc.key]


\* The corners the side key moves.
SideCorners(key) ==
  CASE key = "tm" -> {"tl", "tr"}
    [] key = "mr" -> {"tr", "br"}
    [] key = "bm" -> {"br", "bl"}
    [] key = "ml" -> {"tl", "bl"}

\* A dragmove handler has acted: it had its drag's start data and a pointer.
SideMoveActed ==
  /\ calc.fn = "onWarpSideDragMove"
  /\ calc.before.warpSideDragStartCorners # None
  /\ calc.pointer # None

\* C37: after a dragmove of a side anchor the two corners of the dragged side
\* are their positions at drag start plus the pointer's distance from where it
\* was at drag start, and the other two corners are their positions at drag
\* start; the corners before the event (the earlier moves) do not enter.
C37_SideDragMovesItsTwoCorners ==
  SideMoveActed
    => LET start == calc.q.warpSideDragStartCorners[1]
           p0 == calc.q.warpSideDragStartPointer[1]
           dx == FSub(calc.pointer[1].x, p0.x)
           dy == FSub(calc.pointer[1].y, p0.y)
       IN /\ calc.q.warpSideDragStartCorners = calc.before.warpSideDragStartCorners
          /\ calc.q.warpSideDragStartPointer = calc.before.warpSideDragStartPointer
          /\ \A k \in CornerKeys :
               calc.q.warpCorners[1][k] =
                 IF k \in SideCorners(calc.q.warpSideDragKey[1])
                 THEN [x |-> FAdd(start[k].x, dx), y |-> FAdd(start[k].y, dy)]
                 ELSE start[k]

\* The second dragmove of a side drag has moved the side away from where the
\* first one had put it.
C37_Witness ==
  /\ SideMoveActed
  /\ calc.moves = 2
  /\ calc.before.warpCorners # calc.before.warpSideDragStartCorners
  /\ calc.q.warpCorners # calc.before.warpCorners


\* The handler of the drag area's dragmove has acted.
QuadMoveActed ==
  /\ calc.fn = "onWarpDragMove"
  /\ calc.before.warpDragStartCorners # None
  /\ calc.pointer # None

\* The exact difference of a and b, twice.
Twice(a) == DMul(Dy(2, 0), a)
\* r is the number nearest to the exact value v: 2 |r - v| <= one unit in the
\* last place of r.
NearestTo(r, v) == DLeq(Twice(DAbs(DSub(r, v))), Dy(1, r.e))

CornersAssigned ==
  \/ /\ calc.fn = "onWarpAnchorDragMove"
     /\ calc.before.warpCorners # None
     /\ calc.before.warpSourceRect
  \/ QuadMoveActed
  \/ SideMoveActed

\* C39: after a dragmove of a corner, a side or the whole quad that assigns
\* warpCorners, the proxy rect is the axis-aligned bounding rectangle of the
\* four corners, at least 1 wide and high, unscaled and unrotated, and
\* updateWarpBBoxFromCorners was called before updateWarpNodes, which redraws
\* the outline with these corners.
C39_ProxyRectBoundsTheCorners ==
  CornersAssigned
    => LET c == calc.q.warpCorners[1]
           xs == {c[k].x : k \in CornerKeys}
           ys == {c[k].y : k \in CornerKeys}
           minX == CHOOSE v \in xs : \A w \in xs : DLeq(v, w)
           maxX == CHOOSE v \in xs : \A w \in xs : DLeq(w, v)
           minY == CHOOSE v \in ys : \A w \in ys : DLeq(v, w)
           maxY == CHOOSE v \in ys : \A w \in ys : DLeq(w, v)
           wide == FSub(maxX, minX)
           high == FSub(maxY, minY)
       IN /\ calc.q.proxyRect =
               [x |-> minX, y |-> minY,
                width |-> IF DLess(wide, Num(1)) THEN Num(1) ELSE wide,
                height |-> IF DLess(high, Num(1)) THEN Num(1) ELSE high,
                scaleX |-> Num(1), scaleY |-> Num(1), rotation |-> Num(0)]
          /\ calc.q.calls = <<"updateWarpBBoxFromCorners", "updateWarpNodes">>
          /\ calc.q.outlinePoints = calc.q.warpCorners

\* A dragmove has changed the corners and with them the proxy rect; the
\* corners are less than 1 apart in y and the rect's height is the minimum of 1.
C39_Witness ==
  /\ CornersAssigned
  /\ calc.q.warpCorners # calc.before.warpCorners
  /\ calc.q.proxyRect # calc.before.proxyRect
  /\ calc.q.proxyRect.height = Num(1)
  /\ \A j, k \in CornerKeys :
       DLess(DAbs(DSub(calc.q.warpCorners[1][j].y, calc.q.warpCorners[1][k].y)), Num(1))


\* r is a whole multiple of Math.PI / 4.
IsMultipleOfPiOver4(r) ==
  \E k \in -8..8 : DCompare(r, DMul(Dy(k, 0), PiOver4)) = 0

\* C40: at every motion boxBoundFunc returns the proposed box when the active
\* anchor is not the rotater or shift is not held; on the rotater with shift
\* held it returns the proposed box when its rotation is a whole multiple of
\* Math.PI / 4 (45 degrees) and the previous box otherwise.
C40_RotationSnapsTo45Degrees ==
  calc.fn = "boxBoundFunc"
    => calc.box = IF calc.activeAnchor # "rotater" \/ ~calc.shiftKey
                  THEN calc.proposed
                  ELSE IF IsMultipleOfPiOver4(calc.proposed.rotation)
                       THEN calc.proposed
                       ELSE calc.old

\* A second motion on the rotater with shift held proposed a multiple of
\* Math.PI / 4 other than the rotation the box had, and the box took it.
C40_Witness ==
  /\ calc.fn = "boxBoundFunc"
  /\ calc.events = 2
  /\ calc.activeAnchor = "rotater"
  /\ calc.shiftKey
  /\ calc.proposed.rotation # calc.old.rotation
  /\ calc.old.rotation # Num(0)
  /\ calc.box = calc.proposed

====
